---- MODULE Spec2Model ----
(***************************************************************************)
(* Workflow-driven email ingestion and merge engine                        *)
(* (email_processor.py, utils.py, imap_utils.py).                          *)
(*                                                                         *)
(* Text is modelled as a sequence of one-character strings so that         *)
(* cleaning, stripping, substring tests and number extraction are          *)
(* computed the way the Python code computes them.                         *)
(***************************************************************************)
EXTENDS Integers, Sequences, FiniteSets, TLC

(***************************************************************************)
(* Bounds of the model                                                     *)
(***************************************************************************)
MaxMsgs == 4        \* messages in the mailbox (uids 1..MaxMsgs)
MaxRuns == 2        \* runs of process_all_emails in one behaviour

(***************************************************************************)
(* Characters and text helpers                                             *)
(***************************************************************************)
NL == "\n"
CR == "\r"
WhiteSpace == {" ", NL, CR}
Digits == {"0", "1", "2"}
\* "I" stands for the words Issue / Volume of the fallback pattern
Indicators == {"#", "I"}

RECURSIVE FilterOut(_, _)
FilterOut(s, c) ==
    IF s = <<>> THEN <<>>
    ELSE IF Head(s) = c THEN FilterOut(Tail(s), c)
         ELSE <<Head(s)>> \o FilterOut(Tail(s), c)

ReplaceChar(s, a, b) == [i \in 1..Len(s) |-> IF s[i] = a THEN b ELSE s[i]]

RECURSIVE LStrip(_)
LStrip(s) ==
    IF s # <<>> /\ Head(s) \in WhiteSpace THEN LStrip(Tail(s)) ELSE s

RECURSIVE RStrip(_)
RStrip(s) ==
    IF s # <<>> /\ s[Len(s)] \in WhiteSpace
    THEN RStrip(SubSeq(s, 1, Len(s) - 1)) ELSE s

\* str.strip()
strip(s) == RStrip(LStrip(s))

\* Python's  a in b  on strings
IsSubstring(a, b) ==
    \E i \in 1..(Len(b) + 1) :
        /\ i + Len(a) - 1 <= Len(b)
        /\ SubSeq(b, i, i + Len(a) - 1) = a

\* Python's  x in list
InList(x, l) == \E i \in 1..Len(l) : l[i] = x

Range(s) == {s[i] : i \in 1..Len(s)}

clean_text(text) ==
    IF text = <<>> THEN <<>>
    ELSE strip(ReplaceChar(FilterOut(text, CR), NL, " "))

sanitize_for_json(text) ==
    IF text = <<>> THEN <<>>
    ELSE ReplaceChar(ReplaceChar(text, "\\", "/"), "\"", "'")

\* str.isdigit()
isdigit(s) == s # <<>> /\ \A i \in 1..Len(s) : s[i] \in Digits

UNKNOWN == <<"u", "n", "k", "n", "o", "w", "n">>

\* the maximal run of digits of s that starts at position i  (\d+)
RECURSIVE DigitRun(_, _)
DigitRun(s, i) ==
    IF i <= Len(s) /\ s[i] \in Digits
    THEN <<s[i]>> \o DigitRun(s, i + 1) ELSE <<>>

\* first position at or after i that is not whitespace  (\s*)
RECURSIVE SkipSpace(_, _)
SkipSpace(s, i) ==
    IF i <= Len(s) /\ s[i] \in WhiteSpace THEN SkipSpace(s, i + 1) ELSE i

\* positions where (?:Issue|#|Volume)\s*(\d+) matches
IndicatorMatches(s) ==
    {i \in 1..Len(s) :
        /\ s[i] \in Indicators
        /\ DigitRun(s, SkipSpace(s, i + 1)) # <<>>}

DigitPositions(s) == {i \in 1..Len(s) : s[i] \in Digits}

Min(S) == CHOOSE x \in S : \A y \in S : x <= y
Max(S) == CHOOSE x \in S : \A y \in S : x >= y

get_release_number_fallback(subject) ==
    IF IndicatorMatches(subject) # {}
    THEN DigitRun(subject, SkipSpace(subject, Min(IndicatorMatches(subject)) + 1))
    ELSE IF DigitPositions(subject) # {}
         THEN DigitRun(subject, Min(DigitPositions(subject)))
         ELSE UNKNOWN


(***************************************************************************)
(* File names: os.path.splitext is modelled by keeping the stem and the    *)
(* extension apart.                                                        *)
(***************************************************************************)
LowerMap == [c \in {"T", "C", "M", "Y"} |->
               CASE c = "T" -> "t" [] c = "C" -> "c" [] c = "M" -> "m" [] c = "Y" -> "y"]
Lower(c) == IF c \in DOMAIN LowerMap THEN LowerMap[c] ELSE c
AlNum == {"a", "b", "c", "m", "n", "t", "y", "0", "1", "2"}

ExtLower(e) ==
    CASE e = ".JPG" -> ".jpg" [] e = ".MP3" -> ".mp3" [] e = ".ZIP" -> ".zip"
      [] OTHER -> e

\* re.sub(r'[^a-z0-9]+', '_', name) followed by re.sub(r'_+', '_', name)
RECURSIVE Underscore(_, _)
Underscore(s, lastWasUnderscore) ==
    IF s = <<>> THEN <<>>
    ELSE IF Head(s) \in AlNum
         THEN <<Head(s)>> \o Underscore(Tail(s), FALSE)
         ELSE IF lastWasUnderscore THEN Underscore(Tail(s), TRUE)
              ELSE <<"_">> \o Underscore(Tail(s), TRUE)

RECURSIVE StripUnderscore(_)
StripUnderscore(s) ==
    IF s # <<>> /\ Head(s) = "_" THEN StripUnderscore(Tail(s))
    ELSE IF s # <<>> /\ s[Len(s)] = "_"
         THEN StripUnderscore(SubSeq(s, 1, Len(s) - 1))
         ELSE s

SlugStem(stem) ==
    StripUnderscore(Underscore([i \in 1..Len(stem) |-> Lower(stem[i])], FALSE))

slugify_filename(f) == [name |-> SlugStem(f.name), ext |-> ExtLower(f.ext)]

ImageExtensions == {".jpg", ".jpeg", ".png", ".gif", ".bmp", ".webp", ".svg"}
_is_image(f) == ExtLower(f.ext) \in ImageExtensions

(***************************************************************************)
(* The mailbox: a fixed finite set of messages, uid 1 the oldest.          *)
(***************************************************************************)
Uids == 1..MaxMsgs
Kind(u) == ((u - 1) % 4) + 1

SubjectOf(u) ==
    CASE Kind(u) = 1 -> <<"#", "1">>
      [] Kind(u) = 2 -> <<"I", " ", "1", NL>>
      [] Kind(u) = 3 -> <<"a", "b">>
      [] OTHER       -> <<"a", "2", "1", " ", "1">>

BodyOf(u) ==
    CASE Kind(u) = 1 -> <<"a">>
      [] Kind(u) = 2 -> <<"b", NL>>
      [] Kind(u) = 3 -> <<"a">>
      [] OTHER       -> <<"c", "\"">>

AttachmentsOf(u) ==
    CASE Kind(u) = 1 -> <<[name |-> <<"T", "1">>, ext |-> ".m4a"]>>
      [] Kind(u) = 2 -> <<[name |-> <<"c">>, ext |-> ".JPG"],
                          [name |-> <<"T", " ", "2">>, ext |-> ".MP3"]>>
      [] Kind(u) = 3 -> <<[name |-> <<"n">>, ext |-> ".png"]>>
      [] OTHER       -> <<>>

\* dates are hours; a day has DayLen hours
DayLen == 2
DateOf(u) == u + 1
Day(d) == d \div DayLen

\* msg.from_ and msg.to
SenderOf(u) == IF u % 2 = 1 THEN "x@a" ELSE "y@b"
RecipientsOf(u) == IF u % 2 = 1 THEN <<"me@m">> ELSE <<"me@m", "you@m">>

Msg(u) == [uid |-> u, message_id |-> 10 + u, subject |-> SubjectOf(u),
           from_ |-> SenderOf(u), to |-> RecipientsOf(u),
           text |-> BodyOf(u), date |-> DateOf(u),
           attachments |-> AttachmentsOf(u)]

(***************************************************************************)
(* Workflow configuration                                                  *)
(***************************************************************************)
CollectionTypes == {"bound_volume", "playlist", "named_release"}
FolderPrefix == <<"i", "s", "s", "u", "e", "_">>
single_release_name == <<"m", "i", "x">>
NoTitle == <<>>
TheTitle == <<"M", "y", " ", "T">>
NoDate == 0

\* the workflows declared: one without after_date, which resumes from the
\* archive, and one whose declaration pins after_date
WorkflowNames == {"resuming", "pinned"}
PinnedDate == 1
StaticAfterDate(name) == IF name = "pinned" THEN PinnedDate ELSE NoDate

\* WorkflowConfig.extract_release_number: configured pattern
\* (indicator or '#', optional blanks, digits), then the first number.
extract_release_number(subject) == get_release_number_fallback(subject)

\* WorkflowConfig.get_folder_name: folder_pattern with {number} filled in
get_folder_name(release_number) == FolderPrefix \o release_number

(***************************************************************************)
(* Release records (raw.json)                                              *)
(***************************************************************************)
\* a JSON value that is either a list or a single value (or absent)
Scalar(x) == [isList |-> FALSE, items |-> <<x>>]
ListOf(s) == [isList |-> TRUE, items |-> s]
Missing   == [isList |-> FALSE, items |-> <<>>]

\* a file whose write was cut short: not parseable
Partial == [ok |-> FALSE]

SEP == <<NL, NL, "--- PART 2 ---", NL, NL>>

ListKeys == {"uid", "message_id", "subject"}

\* truthiness of the single value held under a list key
Truthy(key, v) ==
    /\ v.items # <<>>
    /\ (key = "subject" => v.items[1] # <<>>)

\* variant: the new value replaces the list
MergeListField_Overwrite(key, existing_v, new_val) == ListOf(<<new_val>>)

\* lines 270-277: coerce to a list, append the new value unless present
MergeListField(key, existing_v, new_val) ==
    LET asList == IF existing_v.isList THEN existing_v.items
                  ELSE IF Truthy(key, existing_v) THEN <<existing_v.items[1]>>
                  ELSE <<>>
    IN  ListOf(IF InList(new_val, asList) THEN asList
               ELSE Append(asList, new_val))

\* variant: the new text is appended without the separator
MergeBody_NoSeparator(existing_body, new_body) ==
    IF new_body # <<>> /\ ~IsSubstring(new_body, existing_body)
    THEN strip(existing_body \o new_body)
    ELSE existing_body

\* lines 280-283
MergeBody(existing_body, new_body) ==
    IF new_body # <<>> /\ ~IsSubstring(new_body, existing_body)
    THEN strip(existing_body \o SEP \o new_body)
    ELSE existing_body

\* variant: the merged record takes date, from and to of the new email
_merge_metadata_TakesNewHeader(existing, new_data) ==
    [existing EXCEPT
        !.uid         = MergeListField("uid", @, new_data.uid),
        !.message_id  = MergeListField("message_id", @, new_data.message_id),
        !.subject     = MergeListField("subject", @, new_data.subject),
        !.body        = MergeBody(@, new_data.body),
        !.date        = new_data.date,
        !.from        = new_data.from,
        !.to          = new_data.to,
        !.attachments = @ \o new_data.attachments]

\* EmailProcessor._merge_metadata: existing is the parsed raw.json,
\* new_data the dictionary built from the message (single values); the
\* keys it does not name (date, from, to, the extracted text) stay
_merge_metadata(existing, new_data) ==
    [existing EXCEPT
        !.uid         = MergeListField("uid", @, new_data.uid),
        !.message_id  = MergeListField("message_id", @, new_data.message_id),
        !.subject     = MergeListField("subject", @, new_data.subject),
        !.body        = MergeBody(@, new_data.body),
        !.attachments = @ \o new_data.attachments]

\* lines 237-247
NewData(msg, clean_subject, attachment_metadata, lyrics) ==
    [ok |-> TRUE, uid |-> msg.uid, message_id |-> msg.message_id,
     subject |-> clean_subject, body |-> sanitize_for_json(msg.text),
     date |-> Scalar(msg.date), from |-> Scalar(msg.from_),
     to |-> ListOf(msg.to), attachments |-> attachment_metadata,
     lyrics |-> lyrics]

\* variant: the three fields are left as single values
CreateRecord_NoLists(new_data) ==
    [new_data EXCEPT !.uid = Scalar(@), !.message_id = Scalar(@),
                     !.subject = Scalar(@)]

\* lines 255-259
CreateRecord(new_data) ==
    [new_data EXCEPT !.uid = ListOf(<<@>>), !.message_id = ListOf(<<@>>),
                     !.subject = ListOf(<<@>>)]

\* the record left by the manual import of the legacy script
LegacyRecord ==
    [ok |-> TRUE, uid |-> Scalar(0), message_id |-> Missing,
     subject |-> Scalar(<<"#", "1">>), body |-> <<"a">>, date |-> Missing,
     from |-> Missing, to |-> Missing, attachments |-> <<>>, lyrics |-> <<>>]


(***************************************************************************)
(* State                                                                   *)
(***************************************************************************)
VARIABLES
    wf,         \* the workflow: name, collection_type, merge_fragments,
                \* after_date, attachment_processors, generate_metadata
    registry,   \* the Dedup Registry file: st (absent / ok / corrupt), uids
    raw,        \* release folder |-> content of its raw.json
    dirs,       \* existing directories [folder, sub]
    media,      \* attachment files on disk [folder, sub, file]
    metadata,   \* release folder |-> state of its metadata.json
    pc,         \* "idle" between runs, "loop" inside process_all_emails
    force,      \* the force argument of the current run
    title,      \* the title argument of the current run
    queue,      \* uids the mail source has still to yield, newest first
    fetched,    \* uids the mail source yields in the current run
    runs,       \* number of runs started
    persisted,  \* history: uids whose record write completed
    failed,     \* history: uids whose processing raised and is not yet marked
    written,    \* history: folders whose raw.json the engine wrote completely
    clean,      \* history: no exception so far in the current run
    skipped,    \* history: uids the current run skipped as already processed
    prev,       \* history: how the previous run ended, and raw at its end
    arg,        \* input of the function under study (SpecMerge, SpecCursor)
    res         \* its results so far

engine == <<wf, registry, raw, dirs, media, metadata, pc, force, title, queue, fetched,
            runs, persisted, failed, written, clean, skipped, prev>>
pure == <<arg, res>>
vars == <<engine, pure>>

EmptyMap == [f \in {} |-> Partial]
Put(map, k, v) == [x \in (DOMAIN map) \cup {k} |-> IF x = k THEN v ELSE map[x]]

Dir(folder, sub) == [folder |-> folder, sub |-> sub]
File(folder, sub, file) == [folder |-> folder, sub |-> sub, file |-> file]

LegacyFolder == get_folder_name(<<"1">>)

(***************************************************************************)
(* utils.is_already_downloaded / mark_as_downloaded                        *)
(***************************************************************************)
\* json.load of the registry raises when the file is not valid JSON
RegistryUnreadable(reg) == reg.st = "corrupt"

\* variant: the uid is looked up without str(), and never found
is_already_downloaded_NoStr(uid, reg) == FALSE

is_already_downloaded(uid, reg) ==
    IF reg.st = "absent" THEN FALSE ELSE InList(uid, reg.uids)

\* variant: the uid is appended in memory but the file is not rewritten
mark_as_downloaded_NoWrite(uid, reg, writeFails) ==
    [reg |-> reg, raised |-> RegistryUnreadable(reg)]

\* result of mark_as_downloaded: the registry afterwards and whether it
\* raised; writeFails: the rewrite of the file is cut short
mark_as_downloaded(uid, reg, writeFails) ==
    IF RegistryUnreadable(reg) THEN [reg |-> reg, raised |-> TRUE]
    ELSE LET processed_uids == IF reg.st = "absent" THEN <<>> ELSE reg.uids
         IN  IF InList(uid, processed_uids) THEN [reg |-> reg, raised |-> FALSE]
             ELSE IF writeFails
                  THEN [reg |-> [st |-> "corrupt", uids |-> <<>>], raised |-> TRUE]
                  ELSE [reg |-> [st |-> "ok", uids |-> Append(processed_uids, uid)],
                        raised |-> FALSE]

(***************************************************************************)
(* EmailProcessor._get_latest_archived_date                                *)
(***************************************************************************)
\* variant: a list-valued date contributes its last element
RecordDate_LastOfList(rec) ==
    IF ~rec.ok THEN NoDate
    ELSE IF rec.date.items = <<>> THEN NoDate
    ELSE rec.date.items[Len(rec.date.items)]

\* the date string of one record, NoDate when the record is skipped
RecordDate(rec) ==
    IF ~rec.ok THEN NoDate                       \* json.load raises: skipped
    ELSE IF rec.date.items = <<>> THEN NoDate    \* no date, or empty list
    ELSE rec.date.items[1]                       \* the value, or date_str[0]

\* date strings: h > 0 is hour h with a UTC offset (an aware datetime),
\* -h is hour h without offset (a naive datetime), Unparseable a string
\* datetime.fromisoformat rejects
Unparseable == -1
IsAware(d) == d > 0
Hour(d) == IF d > 0 THEN d ELSE 0 - d

\* line 55: comparing a naive with an aware datetime raises TypeError
Comparable(d, e) == IsAware(d) = IsAware(e)

\* the loop of lines 40-62 over the records in scan order; whatever is
\* raised for a record is caught at line 60 and the record is skipped
RECURSIVE ScanDates(_, _)
ScanDates(dates, latest_datetime) ==
    IF dates = <<>> THEN latest_datetime
    ELSE LET email_date == Head(dates)
         IN  IF email_date = NoDate \/ email_date = Unparseable
             THEN ScanDates(Tail(dates), latest_datetime)
             ELSE IF latest_datetime = NoDate
             THEN ScanDates(Tail(dates), email_date)
             ELSE IF ~Comparable(email_date, latest_datetime)
             THEN ScanDates(Tail(dates), latest_datetime)
             ELSE IF Hour(email_date) > Hour(latest_datetime)
             THEN ScanDates(Tail(dates), email_date)
             ELSE ScanDates(Tail(dates), latest_datetime)

\* strftime("%Y/%m/%d") of the latest datetime, None when there is none
_get_latest_archived_date(dates) ==
    LET latest_datetime == ScanDates(dates, NoDate)
    IN  IF latest_datetime = NoDate THEN NoDate
        ELSE Day(Hour(latest_datetime))

\* all orders in which rglob may yield the folders of S
Orders(S) ==
    {o \in [1..Cardinality(S) -> S] : \A i, j \in 1..Cardinality(S) :
                                          i # j => o[i] # o[j]}

(***************************************************************************)
(* imap_utils.fetch_emails: the messages matching after:<date>, newest     *)
(* first                                                                   *)
(***************************************************************************)
Matches(after) == {u \in Uids : after = NoDate \/ Day(DateOf(u)) >= after}

RECURSIVE Descending(_)
Descending(S) ==
    IF S = {} THEN <<>> ELSE <<Max(S)>> \o Descending(S \ {Max(S)})

fetch_emails(after) == Descending(Matches(after))


(***************************************************************************)
(* Attachment processors and the handler registry                          *)
(* (attachment_handlers.py, EmailProcessor._process_attachment)            *)
(***************************************************************************)
HANDLERS ==
    {"process_zip_attachment", "normalize_audio", "extract_docx_text",
     "save_image"}

\* get_handler raises ValueError for a name that is not registered
UnknownHandler(handler_name) == handler_name \notin HANDLERS

\* the processors of the workflow template, in declaration order
ZipExtractor ==
    [name |-> "zip_extractor", file_patterns |-> << <<"*", ".zip">> >>,
     handler |-> "process_zip_attachment"]
AudioNormalizer ==
    [name |-> "audio_normalizer",
     file_patterns |-> << <<"*", ".mp3">>, <<"*", ".m4a">>, <<"*", ".wav">> >>,
     handler |-> "normalize_audio"]
ImageSaver ==
    [name |-> "image_saver",
     file_patterns |-> << <<"*", ".jpg">>, <<"*", ".jpeg">>, <<"*", ".png">>,
                          <<"*", ".gif">> >>,
     handler |-> "save_image"]
LyricsExtractor ==
    [name |-> "lyrics_extractor", file_patterns |-> << <<"*", ".docx">> >>,
     handler |-> "extract_docx_text"]
TemplateProcessors ==
    <<ZipExtractor, AudioNormalizer, ImageSaver, LyricsExtractor>>

\* the characters fnmatch compares: the lower-cased name, then the
\* extension as one symbol
FileNameLower(f) ==
    [i \in 1..Len(f.name) |-> Lower(f.name[i])]
        \o (IF f.ext = "" THEN <<>> ELSE <<ExtLower(f.ext)>>)

PatternLower(pattern) == [i \in 1..Len(pattern) |-> ExtLower(Lower(pattern[i]))]

\* fnmatch.fnmatch for patterns made of literal symbols and '*'
RECURSIVE fnmatch(_, _)
fnmatch(name, pattern) ==
    IF pattern = <<>> THEN name = <<>>
    ELSE IF Head(pattern) = "*"
         THEN \/ fnmatch(name, Tail(pattern))
              \/ (name # <<>> /\ fnmatch(Tail(name), pattern))
         ELSE /\ name # <<>>
              /\ Head(name) = Head(pattern)
              /\ fnmatch(Tail(name), Tail(pattern))

\* variant: the file name is compared as it stands, without lower()
_matches_pattern_CaseSensitive(filename, patterns) ==
    \E i \in 1..Len(patterns) :
        fnmatch(filename.name \o (IF filename.ext = "" THEN <<>>
                                  ELSE <<filename.ext>>),
                PatternLower(patterns[i]))

_matches_pattern(filename, patterns) ==
    \E i \in 1..Len(patterns) :
        fnmatch(FileNameLower(filename), PatternLower(patterns[i]))

\* what one handler call leaves behind: raised (get_handler found no such
\* handler), the files written under the target directory, the descriptors
\* returned and the text put into extracted_text; removed: the files the
\* handler deleted (normalize_audio.py line 128), none unless stated
HandlerResult(raised, files, descriptors, lyrics) ==
    [raised |-> raised, files |-> files, descriptors |-> descriptors,
     lyrics |-> lyrics, removed |-> {}]

\* env: the workflow's settings for audio and the outcomes of what the
\* handlers of one attachment do on disk: extractOk (python-docx reads the
\* document), normalize_audio and output_format (the workflow's flags),
\* normalize (how normalize_audio ends)
NormalizeOutcomes == {"ok", "run_fails", "empty", "move_fails", "move_cut"}

\* clean_text(att.filename)
OrigName(att) == [name |-> clean_text(att.name), ext |-> att.ext]

Descriptor(att, slugged_name, type) ==
    [original |-> OrigName(att), slugified |-> slugged_name, type |-> type]

\* WorkflowConfig.audio_output_format of the template
audio_output_format == "mp3"

\* the keys of OUTPUT_FORMATS the model uses, and the extension of each
\* ("" for 'original', whose entry is None, and for a key that is missing)
OUTPUT_FORMATS == {"original", "mp3", "ogg"}
OutputExtension(output_format) ==
    CASE output_format = "mp3" -> ".mp3"
      [] output_format = "ogg" -> ".ogg"
      [] OTHER -> ""

DefaultEnv ==
    [extractOk |-> TRUE, normalize_audio |-> TRUE,
     output_format |-> audio_output_format, normalize |-> "ok"]

\* normalize_audio.normalize_audio on a file that exists: what it returns,
\* what has become of the original (intact, removed, replaced by the
\* normalised audio, or damaged), the state of the output at the target
\* path (none, complete, partial) and the files left.  outcome: "ok";
\* "run_fails", run_normalization raises; "empty", no or an empty output;
\* "move_fails", shutil.move raises before it writes; "move_cut",
\* shutil.move raises after it has begun to write the target.
normalize_audio(input_path, output_format, outcome) ==
    LET extension == IF output_format = "original" THEN input_path.ext
                     ELSE OutputExtension(output_format)
        target_path == [input_path EXCEPT !.ext = extension]
        untouched == [returned |-> FALSE, original |-> "intact",
                      output |-> "none", files |-> {input_path}]
    IN  IF output_format \notin OUTPUT_FORMATS THEN untouched
        ELSE IF outcome \in {"run_fails", "empty"} THEN untouched
        ELSE IF outcome = "ok"
        THEN [returned |-> TRUE,
              original |-> IF target_path = input_path THEN "replaced"
                           ELSE "removed",
              output |-> "complete", files |-> {target_path}]
        ELSE IF target_path # input_path
        THEN \* line 128 has removed the original before the move
             [returned |-> FALSE, original |-> "removed",
              output |-> IF outcome = "move_cut" THEN "partial" ELSE "none",
              files |-> IF outcome = "move_cut" THEN {target_path} ELSE {}]
        ELSE [returned |-> FALSE,
              original |-> IF outcome = "move_cut" THEN "damaged"
                           ELSE "intact",
              output |-> "none", files |-> {input_path}]

\* the file is saved, normalised if the workflow says so, and reported
\* under the name lines 126-141 work out; files: what is on disk afterwards
normalize_audio_handler(att, env) ==
    LET slugged_name == slugify_filename(att)
        n == normalize_audio(slugged_name, env.output_format, env.normalize)
        final_name == IF env.normalize_audio
                         /\ env.output_format # "original"
                         /\ env.output_format \in OUTPUT_FORMATS
                         /\ OutputExtension(env.output_format) # ""
                      THEN [slugged_name EXCEPT
                               !.ext = OutputExtension(env.output_format)]
                      ELSE slugged_name
    IN  [HandlerResult(FALSE,
                       IF env.normalize_audio THEN n.files ELSE {slugged_name},
                       <<Descriptor(att, final_name, "audio")>>, <<>>)
            EXCEPT !.removed = IF env.normalize_audio /\ n.original = "removed"
                               THEN {slugged_name} ELSE {}]

\* the paragraphs of a document, as python-docx reads them
DocumentText(att) == IF "text" \in DOMAIN att THEN att.text ELSE <<>>

\* extractOk = FALSE: python-docx raises and the handler logs it
extract_docx_text(att, extractOk) ==
    HandlerResult(FALSE, {slugify_filename(att)},
                  <<Descriptor(att, slugify_filename(att), "document")>>,
                  IF extractOk THEN DocumentText(att) ELSE <<>>)

save_image(att) ==
    HandlerResult(FALSE, {slugify_filename(att)},
                  <<Descriptor(att, slugify_filename(att), "image")>>, <<>>)

\* EmailProcessor._save_raw_attachment
_save_raw_attachment(att) ==
    HandlerResult(FALSE, {slugify_filename(att)},
                  <<[original |-> OrigName(att),
                     slugified |-> slugify_filename(att)]>>,
                  <<>>)

\* the entries of an archive, in the order of infolist()
ZipEntriesOf(att) == IF "entries" \in DOMAIN att THEN att.entries ELSE <<>>

\* entries without a base name, or whose name starts with '.' or '__'
Junk(entry) ==
    \/ entry.name = <<>> /\ entry.ext = ""
    \/ entry.name # <<>> /\ Head(entry.name) = "."
    \/ Len(entry.name) >= 2 /\ entry.name[1] = "_" /\ entry.name[2] = "_"

RECURSIVE ApplyHandler(_, _, _, _)
RECURSIVE ReDispatch(_, _, _, _)
RECURSIVE ExtractEntries(_, _, _, _)

\* get_handler(handler_name)(attachment, ...)
ApplyHandler(handler_name, att, processors, env) ==
    CASE handler_name = "normalize_audio" -> normalize_audio_handler(att, env)
      [] handler_name = "extract_docx_text" -> extract_docx_text(att, env.extractOk)
      [] handler_name = "save_image" -> save_image(att)
      [] handler_name = "process_zip_attachment" ->
            ExtractEntries(ZipEntriesOf(att), processors, env,
                           HandlerResult(FALSE, {}, <<>>, <<>>))
      [] OTHER -> HandlerResult(TRUE, {}, <<>>, <<>>)

\* attachment_handlers.py lines 56-84: the extracted file goes to the first
\* processor other than zip_extractor that matches; get_handler is called
\* for every processor the loop visits
ReDispatch(rest, processors, extracted_att, env) ==
    IF rest = <<>>
    THEN [was_processed |-> FALSE, handler |-> "",
          result |-> HandlerResult(FALSE, {}, <<>>, <<>>)]
    ELSE LET processor_config == Head(rest)
         IN  IF processor_config.name = "zip_extractor"
             THEN ReDispatch(Tail(rest), processors, extracted_att, env)
             ELSE IF UnknownHandler(processor_config.handler)
             THEN [was_processed |-> FALSE, handler |-> "",
                   result |-> HandlerResult(TRUE, {}, <<>>, <<>>)]
             ELSE IF _matches_pattern(extracted_att,
                                      processor_config.file_patterns)
             THEN [was_processed |-> TRUE,
                   handler |-> processor_config.handler,
                   result |-> ApplyHandler(processor_config.handler,
                                           extracted_att, processors, env)]
             ELSE ReDispatch(Tail(rest), processors, extracted_att, env)

\* attachment_handlers.py lines 31-86: the loop over the archive's entries.
\* normalize_audio_handler saves the extracted file again under the same
\* path, so what is left of it is among the files of its result.
ExtractEntries(entries, processors, env, acc) ==
    IF entries = <<>> \/ acc.raised THEN acc
    ELSE LET file_info == Head(entries)
             slugged_name == slugify_filename(file_info)
             extracted_att == [file_info EXCEPT !.name = slugged_name.name,
                                                !.ext = slugged_name.ext]
             r == ReDispatch(processors, processors, extracted_att, env)
             handler_result == r.result
             final_name == IF r.was_processed
                              /\ handler_result.descriptors # <<>>
                           THEN handler_result.descriptors[1].slugified
                           ELSE slugged_name
             file_metadata == [original |-> [name |-> file_info.name,
                                             ext |-> file_info.ext],
                               slugified |-> final_name]
         IN  IF Junk(file_info)
             THEN ExtractEntries(Tail(entries), processors, env, acc)
             ELSE ExtractEntries(Tail(entries), processors, env,
                    [HandlerResult(handler_result.raised,
                        (IF r.handler = "normalize_audio"
                         THEN acc.files \ {slugged_name}
                         ELSE acc.files \cup {slugged_name})
                            \cup handler_result.files,
                        IF handler_result.raised THEN acc.descriptors
                        ELSE Append(acc.descriptors, file_metadata),
                        IF handler_result.lyrics # <<>>
                        THEN handler_result.lyrics ELSE acc.lyrics)
                     EXCEPT !.removed = acc.removed \cup handler_result.removed])

process_zip_attachment(att, processors, env) ==
    ApplyHandler("process_zip_attachment", att, processors, env)

\* lines 195-204: the first processor, in declaration order, one of whose
\* patterns matches; NoProcessor when none does
NoProcessor == [name |-> "", file_patterns |-> <<>>, handler |-> ""]

RECURSIVE FindProcessor(_, _)
FindProcessor(processors, orig_name) ==
    IF processors = <<>> THEN NoProcessor
    ELSE IF _matches_pattern(orig_name, Head(processors).file_patterns)
         THEN Head(processors)
         ELSE FindProcessor(Tail(processors), orig_name)

\* EmailProcessor._process_attachment: the processor chosen, the target
\* directory, and what the handler (or the plain save) left behind
_process_attachment(att, processors, env) ==
    LET orig_name == OrigName(att)
        target_dir == IF _is_image(orig_name) THEN "images" ELSE "audio"
        processor_config == FindProcessor(processors, orig_name)
        result == IF processor_config = NoProcessor
                  THEN _save_raw_attachment(att)
                  ELSE ApplyHandler(processor_config.handler, att,
                                    processors, env)
    IN  [processor |-> processor_config.name,
         handler |-> processor_config.handler,
         target_dir |-> target_dir,
         result |-> result]

(***************************************************************************)
(* EmailProcessor.process_single_email                                     *)
(***************************************************************************)
\* variant: the release number and the title are used without the checks
ResolveRelease_NoGate(msg, ttl) ==
    LET clean_subject == clean_text(msg.subject)
        release_number == extract_release_number(clean_subject)
    IN  CASE wf.collection_type = "bound_volume" ->
               [ok |-> TRUE, folder |-> get_folder_name(release_number)]
          [] wf.collection_type = "playlist" ->
               [ok |-> TRUE, folder |-> single_release_name]
          [] OTHER ->
               [ok |-> TRUE, folder |-> SlugStem(ttl)]

\* lines 108-131: the release folder of a message, ok = FALSE on a hard skip
ResolveRelease(msg, ttl) ==
    LET clean_subject == clean_text(msg.subject)
        release_number == extract_release_number(clean_subject)
    IN  CASE wf.collection_type = "bound_volume" ->
               IF ~isdigit(release_number)
               THEN [ok |-> FALSE, folder |-> <<>>]
               ELSE [ok |-> TRUE, folder |-> get_folder_name(release_number)]
          [] wf.collection_type = "playlist" ->
               [ok |-> TRUE, folder |-> single_release_name]
          [] wf.collection_type = "named_release" ->
               IF ttl = NoTitle
               THEN [ok |-> FALSE, folder |-> <<>>]
               ELSE [ok |-> TRUE, folder |-> SlugStem(ttl)]
          [] OTHER -> [ok |-> FALSE, folder |-> <<>>]

\* lines 231-262: the raw.json map after saving, whether an exception was
\* raised, and whether the write completed.  writeFails: the write is cut
\* short after open(..., "w") has truncated the file.
_save_metadata(issue_dir, msg, clean_subject, attachment_metadata, extracted_text, writeFails) ==
    LET new_data == NewData(msg, clean_subject, attachment_metadata,
                            extracted_text)
        merging  == wf.merge_fragments /\ issue_dir \in DOMAIN raw
    IN  IF merging /\ ~raw[issue_dir].ok
        THEN [raw |-> raw, raised |-> TRUE, saved |-> FALSE]
        ELSE LET final_data == IF merging
                               THEN _merge_metadata(raw[issue_dir], new_data)
                               ELSE CreateRecord(new_data)
             IN  IF writeFails
                 THEN [raw |-> Put(raw, issue_dir, Partial),
                       raised |-> TRUE, saved |-> FALSE]
                 ELSE [raw |-> Put(raw, issue_dir, final_data),
                       raised |-> FALSE, saved |-> TRUE]

\* attachment_metadata.extend(result) over the results in order
RECURSIVE Extend(_)
Extend(lists) ==
    IF lists = <<>> THEN <<>> ELSE Head(lists) \o Extend(Tail(lists))

\* extracted_text after the handlers ran: the last text extracted
RECURSIVE LastText(_)
LastText(texts) ==
    IF texts = <<>> THEN <<>>
    ELSE IF texts[Len(texts)] # <<>> THEN texts[Len(texts)]
    ELSE LastText(SubSeq(texts, 1, Len(texts) - 1))

\* the processor lists the workflows of the model declare
WorkflowProcessors == {TemplateProcessors}

\* line 164 for every attachment of every message of the mailbox, under
\* each processor list, all handlers succeeding (a table, so that it is
\* computed once)
AttachmentResults ==
    [processors \in WorkflowProcessors |->
        [u \in Uids |->
            [i \in 1..Len(AttachmentsOf(u)) |->
                _process_attachment(AttachmentsOf(u)[i], processors,
                                    DefaultEnv)]]]

NoMetadata == [f \in {} |-> ""]

\* what the generation of metadata.json can come to: the file is written
\* and no track gets a duration, the file is written and durations are
\* added, generate_metadata_for_release returns False, or it raises
LlmOutcomes == {"generated", "durations", "false", "raise"}

\* variant: an exception of the generation is not caught
_generate_llm_metadata_Propagates(issue_dir, files, llm) ==
    [metadata |-> metadata, raised |-> llm = "raise"]

\* lines 294-366: metadata.json of the release afterwards, and whether an
\* exception left the method.  _add_track_durations runs after a
\* successful generation and finds a duration only for a track whose
\* audio file is in the release.
_generate_llm_metadata(issue_dir, files, llm) ==
    LET success == llm \in {"generated", "durations"}
        updated == /\ llm = "durations"
                   /\ \E f \in files : f.folder = issue_dir /\ f.sub = "audio"
    IN  [metadata |-> IF ~success THEN metadata
                      ELSE Put(metadata, issue_dir,
                               IF updated THEN "durations" ELSE "generated"),
         raised |-> FALSE]

\* variant: the existence check is left out
AlreadyExists_Never(issue_dir, frc) == FALSE

\* lines 138-143: the release is there already and is left alone
AlreadyExists(issue_dir, frc) ==
    /\ ~frc
    /\ Dir(issue_dir, "") \in dirs
    /\ issue_dir \in DOMAIN raw
    /\ ~wf.merge_fragments

\* variant: the audio directory is never removed
RemovesAudio_Never(issue_dir, frc, atts) == FALSE

\* variant: the audio directory is removed whether force is set or not
RemovesAudio_Unforced(issue_dir, frc, atts) ==
    Dir(issue_dir, "audio") \in dirs /\ Len(atts) > 0

\* lines 148-151: shutil.rmtree(audio_dir) before reprocessing
RemovesAudio(issue_dir, frc, atts) ==
    frc /\ Dir(issue_dir, "audio") \in dirs /\ Len(atts) > 0

\* results: what line 164 yields for each attachment of the message;
\* failAt = k > 0: the handler of the k-th attachment raises.  removed and
\* rmtree: the files and the directories the call deleted on its way
process_single_email(msg, frc, ttl, results, failAt, writeFails, llm) ==
    LET r == ResolveRelease(msg, ttl)
        issue_dir == r.folder
        audio_dir == Dir(issue_dir, "audio")
        atts == msg.attachments
        returned == [dirs |-> dirs, media |-> media, raw |-> raw,
                     metadata |-> metadata,
                     raised |-> FALSE, saved |-> FALSE, folder |-> issue_dir,
                     removed |-> {}, rmtree |-> {}]
    IN  IF ~r.ok THEN returned
        ELSE IF AlreadyExists(issue_dir, frc)
        THEN returned
        ELSE LET wipe   == RemovesAudio(issue_dir, frc, atts)
                 media1 == IF wipe
                           THEN {f \in media :
                                   ~(f.folder = issue_dir /\ f.sub = "audio")}
                           ELSE media
                 dirs1  == dirs \cup {Dir(issue_dir, ""), audio_dir,
                                      Dir(issue_dir, "images")}
                 unknown == {i \in 1..Len(atts) : results[i].result.raised}
                 raisesAt == IF failAt \in 1..Len(atts)
                             THEN Min(unknown \cup {failAt})
                             ELSE IF unknown # {} THEN Min(unknown) ELSE 0
                 attRaises == raisesAt # 0
                 n      == IF attRaises THEN raisesAt - 1 ELSE Len(atts)
                 media2 == media1 \cup
                           UNION {{File(issue_dir, results[i].target_dir, f) :
                                     f \in results[i].result.files} :
                                  i \in 1..n}
                 attachment_metadata ==
                           Extend([i \in 1..n |-> results[i].result.descriptors])
                 extracted_text ==
                           LastText([i \in 1..n |-> results[i].result.lyrics])
                 s == _save_metadata(issue_dir, msg, clean_text(msg.subject),
                                     attachment_metadata, extracted_text,
                                     writeFails)
                 removed == (media \ media1) \cup
                           UNION {{File(issue_dir, results[i].target_dir, f) :
                                     f \in results[i].result.removed} :
                                  i \in 1..n}
                 rmtree == IF wipe THEN {audio_dir} ELSE {}
             IN  IF attRaises
                 THEN [dirs |-> dirs1, media |-> media2, raw |-> raw,
                       metadata |-> metadata,
                       raised |-> TRUE, saved |-> FALSE, folder |-> issue_dir,
                       removed |-> removed, rmtree |-> rmtree]
                 ELSE [dirs |-> dirs1, media |-> media2, raw |-> s.raw,
                       metadata |-> IF s.saved /\ wf.generate_metadata
                                    THEN _generate_llm_metadata(issue_dir,
                                             media2, llm).metadata
                                    ELSE metadata,
                       raised |-> s.raised
                                  \/ (/\ s.saved /\ wf.generate_metadata
                                      /\ _generate_llm_metadata(issue_dir,
                                             media2, llm).raised),
                       saved |-> s.saved,
                       folder |-> issue_dir,
                       removed |-> removed, rmtree |-> rmtree]

(***************************************************************************)
(* EmailProcessor.process_all_emails                                       *)
(***************************************************************************)
\* the archive before the first run: empty, or holding the record of a
\* manual import (legacy)
EngineInit(workflow, legacy) ==
    /\ wf = workflow
    /\ registry = [st |-> "absent", uids |-> <<>>]
    /\ raw = IF legacy THEN Put(EmptyMap, LegacyFolder, LegacyRecord)
             ELSE EmptyMap
    /\ dirs = IF legacy
              THEN {Dir(LegacyFolder, ""), Dir(LegacyFolder, "audio")}
              ELSE {}
    /\ media = {}
    /\ metadata = NoMetadata
    /\ pc = "idle"
    /\ force = FALSE
    /\ title = NoTitle
    /\ queue = <<>>
    /\ fetched = {}
    /\ runs = 0
    /\ persisted = {}
    /\ failed = {}
    /\ written = {}
    /\ clean = TRUE
    /\ skipped = {}
    /\ prev = [valid |-> FALSE, force |-> FALSE, clean |-> TRUE,
               completed |-> TRUE, fetched |-> {}, raw |-> EmptyMap]

Init ==
    /\ \E workflow \in [name : WorkflowNames,
                         collection_type : CollectionTypes,
                         merge_fragments : BOOLEAN,
                         after_date : {NoDate, PinnedDate},
                         attachment_processors : WorkflowProcessors,
                         generate_metadata : BOOLEAN],
          legacy \in BOOLEAN :
          /\ workflow.after_date = StaticAfterDate(workflow.name)
          /\ workflow.name = "pinned" => workflow.collection_type = "playlist"
          /\ legacy => workflow.collection_type = "bound_volume"
          /\ workflow.generate_metadata
                => (workflow.collection_type = "bound_volume" /\ ~legacy)
          /\ EngineInit(workflow, legacy)
    /\ arg = <<>>
    /\ res = <<>>

\* variant: the archived date is written over a configured after_date
ResumeCursor_Overwrites(configured, latest_date) ==
    IF latest_date # NoDate THEN latest_date ELSE configured

\* lines 73-82: after_date is written only if it is unset and an archived
\* date is found
ResumeCursor(configured, latest_date) ==
    IF configured = NoDate /\ latest_date # NoDate THEN latest_date
    ELSE configured

\* lines 66-88: resolve the resume cursor and start fetching.  fresh: the
\* run is the first of a new process, whose workflow is the declared one.
\* order: the order in which rglob yields the records.
StartRunAs(frc, fresh, order, ttl) ==
    /\ pc = "idle"
    /\ runs < MaxRuns
    /\ LET configured  == IF fresh THEN StaticAfterDate(wf.name)
                          ELSE wf.after_date
           latest_date == _get_latest_archived_date(
                              [i \in 1..Len(order) |-> RecordDate(raw[order[i]])])
           after == ResumeCursor(configured, latest_date)
       IN  /\ wf' = [wf EXCEPT !.after_date = after]
           /\ force' = frc
           /\ title' = ttl
           /\ queue' = fetch_emails(after)
           /\ fetched' = Matches(after)
    /\ pc' = "loop"
    /\ runs' = runs + 1
    /\ clean' = TRUE
    /\ skipped' = {}
    /\ UNCHANGED <<registry, raw, dirs, media, metadata, persisted, failed, written, prev>>
    /\ UNCHANGED pure

StartRun ==
    \E frc \in BOOLEAN, fresh \in BOOLEAN, order \in Orders(DOMAIN raw),
       ttl \in IF wf.collection_type = "named_release"
               THEN {NoTitle, TheTitle} ELSE {NoTitle} :
        StartRunAs(frc, fresh, order, ttl)

\* lines 91-93: a uid already in the registry is skipped
SkipProcessed ==
    /\ pc = "loop" /\ queue # <<>>
    /\ ~force
    /\ ~RegistryUnreadable(registry)
    /\ is_already_downloaded(Head(queue), registry)
    /\ queue' = Tail(queue)
    /\ skipped' = skipped \cup {Head(queue)}
    /\ UNCHANGED <<wf, registry, raw, dirs, media, metadata, pc, force, title, fetched,
                   runs, persisted, failed, written, clean, prev>>
    /\ UNCHANGED pure

\* line 91 is outside the try block: an unreadable registry ends the run
DedupCheckRaises ==
    /\ pc = "loop" /\ queue # <<>>
    /\ ~force
    /\ RegistryUnreadable(registry)
    /\ pc' = "idle"
    /\ queue' = <<>>
    /\ clean' = FALSE
    /\ prev' = [valid |-> TRUE, force |-> force, clean |-> FALSE,
                completed |-> FALSE, fetched |-> fetched, raw |-> raw]
    /\ UNCHANGED <<wf, registry, raw, dirs, media, metadata, force, title, fetched,
                   runs, persisted, failed, written, skipped>>
    /\ UNCHANGED pure

Failures == {"none", "attachment1", "attachment2", "write", "mark"}

\* lines 95-99 for the next message, with at most one injected I/O failure
Outcome(fail, llm) ==
    LET msg == Msg(Head(queue))
        failAt == CASE fail = "attachment1" -> 1 [] fail = "attachment2" -> 2
                    [] OTHER -> 0
        p == process_single_email(msg, force, title,
                 AttachmentResults[wf.attachment_processors][msg.uid],
                 failAt, fail = "write", llm)
        m == IF p.raised THEN [reg |-> registry, raised |-> TRUE]
             ELSE mark_as_downloaded(msg.uid, registry, fail = "mark")
    IN  [p |-> p, reg |-> m.reg, raised |-> m.raised]

\* the generation is reached only if the workflow asks for it and nothing
\* failed before it; otherwise its outcome is left out ("false")
Reaches(fail, llm) ==
    llm # "false" => (wf.generate_metadata /\ fail \in {"none", "mark"})

Eligible ==
    /\ pc = "loop" /\ queue # <<>>
    /\ force \/ (/\ ~RegistryUnreadable(registry)
                 /\ ~is_already_downloaded(Head(queue), registry))

Apply(o) ==
    /\ raw' = o.p.raw
    /\ dirs' = o.p.dirs
    /\ media' = o.p.media
    /\ metadata' = o.p.metadata
    /\ registry' = o.reg
    /\ queue' = Tail(queue)
    /\ persisted' = IF o.p.saved THEN persisted \cup {Head(queue)} ELSE persisted
    /\ written' = IF o.p.saved THEN written \cup {o.p.folder} ELSE written
    /\ failed' = IF o.raised THEN failed \cup {Head(queue)}
                 ELSE failed \ {Head(queue)}
    /\ clean' = (clean /\ ~o.raised)
    /\ UNCHANGED <<wf, pc, force, title, fetched, runs, skipped, prev>>
    /\ UNCHANGED pure

\* the message is processed and marked
ProcessEmail ==
    /\ Eligible
    /\ \E fail \in Failures, llm \in LlmOutcomes :
          /\ Reaches(fail, llm)
          /\ ~Outcome(fail, llm).raised /\ Apply(Outcome(fail, llm))

\* processing or marking raises; the exception is caught and logged
ProcessEmailRaises ==
    /\ Eligible
    /\ \E fail \in Failures, llm \in LlmOutcomes :
          /\ Reaches(fail, llm)
          /\ Outcome(fail, llm).raised /\ Apply(Outcome(fail, llm))

\* the mail source is exhausted
EndRun ==
    /\ pc = "loop" /\ queue = <<>>
    /\ pc' = "idle"
    /\ prev' = [valid |-> TRUE, force |-> force, clean |-> clean,
                completed |-> TRUE, fetched |-> fetched, raw |-> raw]
    /\ UNCHANGED <<wf, registry, raw, dirs, media, metadata, force, title, queue,
                   fetched, runs, persisted, failed, written, clean, skipped>>
    /\ UNCHANGED pure

Next ==
    \/ StartRun
    \/ SkipProcessed
    \/ DedupCheckRaises
    \/ ProcessEmail
    \/ ProcessEmailRaises
    \/ EndRun

Spec == Init /\ [][Next]_vars


(***************************************************************************)
(* Properties of process_all_emails                                        *)
(***************************************************************************)
\* the current run is a second run without force, over messages the
\* previous run (complete, without force) also fetched
SecondRun ==
    /\ pc = "loop" /\ ~force
    /\ prev.valid /\ ~prev.force /\ prev.completed
    /\ fetched \subseteq prev.fetched

C2_MarkedOnlyAfterPersist == Range(registry.uids) \subseteq persisted

\* C3: a message whose processing raised before it was marked is fetched
\* again by the next run without force: the resume cursor never excludes it.
C3_FailedIsFetchedAgain == (pc = "loop" /\ ~force) => failed \subseteq fetched

\* C4: in a run without force a fetched message whose uid is in the
\* registry changes no folder, record, attachment file or registry entry.
C4_SkipChangesNothing ==
    [][(/\ pc = "loop" /\ queue # <<>> /\ ~force
        /\ registry.st = "ok" /\ InList(Head(queue), registry.uids))
       => (/\ raw' = raw /\ dirs' = dirs /\ media' = media
           /\ registry' = registry)]_vars

C4_Witness == pc = "loop" /\ ~force /\ skipped # {} /\ raw # EmptyMap

\* C5: in every release record the engine wrote, uid, message_id and
\* subject are lists, even when one email contributed.
C5_ListFields ==
    \A f \in written :
        raw[f].ok => /\ raw[f].uid.isList
                     /\ raw[f].message_id.isList
                     /\ raw[f].subject.isList

C5_Witness ==
    \E f \in written : raw[f].ok /\ Len(raw[f].uid.items) = 1

\* C7: an exception raised while handling one message never stops the run:
\* the next message the mail source yields is still examined.
C7_RunNeverStops ==
    [][(pc = "loop" /\ queue # <<>>) => (pc' = "loop" /\ queue' = Tail(queue))]_vars

\* C8: no error while processing a message leaves a previously persisted
\* record truncated: a complete raw.json stays a complete raw.json.
C8_NeverPartial ==
    [][\A f \in DOMAIN raw :
          raw[f].ok => (f \in DOMAIN raw' /\ raw'[f].ok)]_vars

\* a message for which no release can be resolved in the current run
Unresolved(u) ==
    \/ /\ wf.collection_type = "bound_volume"
       /\ ~isdigit(extract_release_number(clean_text(SubjectOf(u))))
    \/ wf.collection_type = "named_release" /\ title = NoTitle

\* C10: a message for which no release can be resolved never creates a
\* release folder and never writes or changes a release record.
C10_UnresolvedCreatesNothing ==
    [][(pc = "loop" /\ queue # <<>> /\ Unresolved(Head(queue)))
       => (dirs' = dirs /\ raw' = raw /\ media' = media)]_vars

C10_Witness ==
    /\ pc = "loop"
    /\ \E u \in fetched \ (Range(queue) \cup skipped) : Unresolved(u)
    /\ \E u \in fetched \ (Range(queue) \cup skipped) : ~Unresolved(u)


(***************************************************************************)
(* Properties of process_single_email, stated on the step of the loop that *)
(* handles the next message                                                *)
(***************************************************************************)
\* the release of the next message, what its attachments leave on disk
\* and the descriptors they yield when every handler succeeds
ThisRelease == ResolveRelease(Msg(Head(queue)), title)
ThisResults == AttachmentResults[wf.attachment_processors][Head(queue)]
FilesOf(folder, results, indices) ==
    UNION {{File(folder, results[i].target_dir, f) :
               f \in results[i].result.files} : i \in indices}
AudioFiles(files, folder) ==
    {f \in files : f.folder = folder /\ f.sub = "audio"}

\* C12: without force, for a release whose raw record exists and with
\* merge_fragments false, process_single_email changes nothing: not the
\* record, not the files under audio/ and images/, not the folder.
C12_ExistingReleaseUntouched ==
    [][(/\ pc = "loop" /\ queue # <<>> /\ ~force
        /\ ~wf.merge_fragments
        /\ ThisRelease.ok
        /\ ThisRelease.folder \in DOMAIN raw)
       => (raw' = raw /\ media' = media /\ dirs' = dirs)]_vars

\* a message handled in this run (not skipped) returned normally although
\* the record of its release is another message's
C12_Witness ==
    /\ pc = "loop" /\ ~force /\ ~wf.merge_fragments
    /\ \E u \in fetched \ (Range(queue) \cup skipped) :
          LET r == ResolveRelease(Msg(u), title)
          IN  /\ r.ok /\ r.folder \in DOMAIN raw /\ raw[r.folder].ok
              /\ ~InList(u, raw[r.folder].uid.items)
              /\ InList(u, registry.uids)
              /\ Len(Msg(u).attachments) > 0

C14_RecordHoldsOnlyNewAttachments ==
    [][(/\ pc = "loop" /\ queue # <<>> /\ force
        /\ ThisRelease.ok
        /\ ThisRelease.folder \in DOMAIN raw
        /\ raw[ThisRelease.folder].ok
        /\ InList(Head(queue), raw[ThisRelease.folder].uid.items)
        /\ raw[ThisRelease.folder].attachments
              # Extend([i \in DOMAIN ThisResults |->
                           ThisResults[i].result.descriptors])
        /\ Head(queue) \notin failed'
        /\ raw'[ThisRelease.folder].ok)
       => raw'[ThisRelease.folder].attachments
             = Extend([i \in DOMAIN ThisResults |->
                          ThisResults[i].result.descriptors])]_vars

\* C17: when the handler of one attachment fails, the other attachments of
\* the message are still saved and the release record is written with
\* their descriptors.
C17_OtherAttachmentsSurvive ==
    [][\A k \in 1..2 :
          LET fail == IF k = 1 THEN "attachment1" ELSE "attachment2"
              others == DOMAIN ThisResults \ {k}
          IN  (/\ Eligible
               /\ ThisRelease.ok
               /\ ~AlreadyExists(ThisRelease.folder, force)
               /\ k \in DOMAIN ThisResults
               /\ Apply(Outcome(fail, "generated")))
              => /\ FilesOf(ThisRelease.folder, ThisResults, others)
                       \subseteq media'
                 /\ ThisRelease.folder \in DOMAIN raw'
                 /\ raw'[ThisRelease.folder].ok
                 /\ \A i \in others :
                       \A j \in 1..Len(ThisResults[i].result.descriptors) :
                          InList(ThisResults[i].result.descriptors[j],
                                 raw'[ThisRelease.folder].attachments)]_vars

\* C19: when the generation of structured metadata fails (it returns False
\* or raises), the raw record just written stays as written, the message is
\* not failed and its uid is marked; no durations are added.
C19_GenerationFailureIsHarmless ==
    [][\A llm \in {"false", "raise"} :
          (/\ Eligible
           /\ wf.generate_metadata
           /\ ~RegistryUnreadable(registry)
           /\ Outcome("none", llm).p.saved
           /\ Apply(Outcome("none", llm)))
          => /\ raw' = Outcome("none", "generated").p.raw
             /\ raw'[ThisRelease.folder].ok
             /\ Head(queue) \notin failed'
             /\ InList(Head(queue), registry'.uids)
             /\ metadata' = metadata]_vars

\* a message is archived and marked, and its release has no metadata.json
C19_Witness ==
    /\ pc = "loop" /\ wf.generate_metadata
    /\ \E u \in fetched \ Range(queue) :
          LET r == ResolveRelease(Msg(u), title)
          IN  /\ r.ok /\ r.folder \in DOMAIN raw /\ raw[r.folder].ok
              /\ InList(u, raw[r.folder].uid.items)
              /\ InList(u, registry.uids)
              /\ u \notin failed
              /\ r.folder \notin DOMAIN metadata
    /\ \E f \in DOMAIN metadata : metadata[f] = "durations"

\* C20: the Dedup Registry is append-only: no step of any run removes a
\* uid from it.
C20_RegistryAppendOnly ==
    [][Range(registry.uids) \subseteq Range(registry'.uids)]_vars

\* the step handles the next message and no exception is raised
Processed == Eligible /\ queue' = Tail(queue) /\ Head(queue) \notin failed'

\* the uid list of a record, empty when there is no readable record
UidsOf(map, folder) ==
    IF folder \in DOMAIN map /\ map[folder].ok THEN map[folder].uid.items
    ELSE <<>>

\* the next message's uid is in the release's uid list afterwards, which
\* is the list before with the uid appended unless it was there
AppendedTo(folder) ==
    /\ folder \in DOMAIN raw' /\ raw'[folder].ok
    /\ raw'[folder].uid.isList
    /\ UidsOf(raw', folder) =
          IF InList(Head(queue), UidsOf(raw, folder)) THEN UidsOf(raw, folder)
          ELSE Append(UidsOf(raw, folder), Head(queue))

\* C21 (as stated): in a playlist workflow every processed message resolves
\* to the folder single_release_name and is appended to its record: the
\* uid list gains one entry for each distinct message.
C21_PlaylistAppends ==
    [][(wf.collection_type = "playlist" /\ Processed)
       => /\ ThisRelease.ok /\ ThisRelease.folder = single_release_name
          /\ AppendedTo(single_release_name)]_vars

\* C21 (amended): the same for a playlist workflow with merge_fragments
\* enabled.
C21_MergingPlaylistAppends ==
    [][(wf.collection_type = "playlist" /\ wf.merge_fragments /\ Processed)
       => /\ ThisRelease.ok /\ ThisRelease.folder = single_release_name
          /\ AppendedTo(single_release_name)]_vars

\* every message of the mailbox has been appended to the one record
C21_Witness ==
    /\ wf.collection_type = "playlist" /\ wf.merge_fragments
    /\ DOMAIN raw = {single_release_name}
    /\ raw[single_release_name].ok
    /\ Len(raw[single_release_name].uid.items) = MaxMsgs
    /\ Range(raw[single_release_name].uid.items) = Uids

\* C22: a run changes no field of the workflow other than after_date, and
\* writes after_date only when it was unset at the start of the run and an
\* archived date was found (the value written is that date).
C22_OnlyResumeCursorWritten ==
    [][/\ DOMAIN wf' = DOMAIN wf
       /\ \A k \in DOMAIN wf \ {"after_date"} : wf'[k] = wf[k]
       /\ pc = "loop" => wf' = wf
       /\ \A frc \in BOOLEAN, fresh \in BOOLEAN, order \in Orders(DOMAIN raw),
             ttl \in {NoTitle, TheTitle} :
             LET configured == IF fresh THEN StaticAfterDate(wf.name)
                               ELSE wf.after_date
             IN  (StartRunAs(frc, fresh, order, ttl)
                    /\ wf'.after_date # configured)
                 => /\ configured = NoDate
                    /\ wf'.after_date # NoDate
                    /\ \E f \in DOMAIN raw :
                          /\ RecordDate(raw[f]) # NoDate
                          /\ wf'.after_date = Day(RecordDate(raw[f]))]_vars

\* a run started with after_date configured while the archive holds a
\* later date, and another workflow's run took its cursor from the archive
C22_Witness ==
    /\ pc = "loop" /\ runs = 2
    /\ wf.after_date # NoDate
    /\ \E f \in DOMAIN raw :
          /\ RecordDate(raw[f]) # NoDate
          /\ Day(RecordDate(raw[f])) # wf.after_date
    /\ wf.name = "pinned"

\* the step handles a message in a run without force, with outcome o
Unforced(o) == Eligible /\ ~force /\ Apply(o)

\* C34 as stated: handling a message in a run without force deletes no
\* file and no directory.
C34_NothingDeletedWithoutForce ==
    [][\A fail \in Failures, llm \in LlmOutcomes :
          Unforced(Outcome(fail, llm))
              => /\ Outcome(fail, llm).p.removed = {}
                 /\ Outcome(fail, llm).p.rmtree = {}]_vars

\* C34 amended: handling a message in a run without force removes no
\* directory, and no file but the saved original of an audio attachment
\* that normalisation converts to another format; every other file and
\* every directory that was there is still there.
C34_OnlyConvertedOriginalsDeleted ==
    [][\A fail \in Failures, llm \in LlmOutcomes :
          Unforced(Outcome(fail, llm))
              => /\ Outcome(fail, llm).p.rmtree = {}
                 /\ \A f \in Outcome(fail, llm).p.removed :
                       /\ f.sub = "audio"
                       /\ \E i \in 1..Len(Msg(Head(queue)).attachments) :
                             f.file = slugify_filename(Msg(Head(queue)).attachments[i])
                       /\ f.file.ext # OutputExtension(audio_output_format)
                 /\ dirs \subseteq dirs'
                 /\ media \ Outcome(fail, llm).p.removed \subseteq media']_vars

\* a run without force has archived an audio attachment under the name of
\* the converted file: the saved original is gone
C34_Witness ==
    /\ pc = "loop" /\ ~force /\ runs = 1
    /\ \E f \in media :
          /\ f.sub = "audio"
          /\ f.file.ext = OutputExtension(audio_output_format)
          /\ \E u \in persisted : \E i \in 1..Len(AttachmentsOf(u)) :
                /\ slugify_filename(AttachmentsOf(u)[i]).name = f.file.name
                /\ slugify_filename(AttachmentsOf(u)[i]).ext # f.file.ext

\* the descriptor names a file of the release
OnDiskIn(folder, descriptor) ==
    \E sub \in {"audio", "images"} :
        File(folder, sub, descriptor.slugified) \in media

\* C35: every attachment descriptor of a release record names a file that
\* exists under audio/ or images/ of that release.
C35_DescriptorsNameExistingFiles ==
    \A f \in DOMAIN raw :
        raw[f].ok => \A i \in 1..Len(raw[f].attachments) :
                        OnDiskIn(f, raw[f].attachments[i])

\* the resume cursor _get_latest_archived_date computes from an archive
\* (the records' dates of the model are mutually comparable, so the order
\* of the scan does not matter)
CursorOf(records) ==
    LET order == CHOOSE o \in Orders(DOMAIN records) : TRUE
    IN  _get_latest_archived_date(
            [i \in 1..Len(order) |-> RecordDate(records[order[i]])])

\* C37: at the end of a run without force that follows a run without
\* force, the resume cursor the next run will compute is not earlier than
\* the one this run computed.
C37_CursorNeverMovesBack ==
    (/\ pc = "loop" /\ queue = <<>> /\ ~force
     /\ prev.valid /\ ~prev.force)
        => CursorOf(raw) >= CursorOf(prev.raw)

(***************************************************************************)
(* _merge_metadata on its own: a record and an email fragment are drawn,   *)
(* and the fragment is merged into the record repeatedly.                  *)
(***************************************************************************)
MaxBody == 2        \* longest message text drawn
MergeTimes == 2     \* how often the fragment is merged

TextChars == {"a", "b", NL}
Texts == UNION {[1..k -> TextChars] : k \in 0..MaxBody}

\* email fragments: the fields of a message that reach the record
\* the descriptors and the lyrics the handlers returned for the email
FragmentAttachments(u) ==
    Extend([i \in 1..Len(AttachmentsOf(u)) |->
               AttachmentResults[TemplateProcessors][u][i].result.descriptors])
FragmentLyrics(u) == IF u = 1 THEN <<"a">> ELSE <<"b", NL, "a">>

Fragments ==
    {[uid |-> u, message_id |-> 10 + u, subject |-> sb, text |-> t,
      date |-> DateOf(u), from_ |-> SenderOf(u), to |-> RecipientsOf(u),
      attachments |-> FragmentAttachments(u),
      lyrics |-> FragmentLyrics(u)] :
        u \in {1, 2}, sb \in {<<"#", "1">>, <<"I", " ", "1", NL>>}, t \in Texts}

FragmentData(g) == NewData(g, clean_text(g.subject), g.attachments, g.lyrics)

PlainWorkflow ==
    [name |-> "resuming", collection_type |-> "playlist",
     merge_fragments |-> TRUE, after_date |-> NoDate, attachment_processors |-> TemplateProcessors,
     generate_metadata |-> TRUE]

\* the record is one the engine created from an email, or the legacy one
InitMerge ==
    /\ EngineInit(PlainWorkflow, FALSE)
    /\ \E g \in Fragments :
          \E existing \in {CreateRecord(FragmentData(h)) : h \in Fragments}
                             \cup {LegacyRecord} :
              arg = [existing |-> existing, new_data |-> FragmentData(g)]
    /\ res = <<>>

Merge ==
    /\ Len(res) < MergeTimes
    /\ res' = Append(res, _merge_metadata(IF res = <<>> THEN arg.existing
                                          ELSE res[Len(res)], arg.new_data))
    /\ UNCHANGED <<engine, arg>>

NextMerge == Merge

SpecMerge == InitMerge /\ [][NextMerge]_vars

NoDuplicates(l) == \A i, j \in 1..Len(l) : i # j => l[i] # l[j]

\* C6: merging the same fragment twice yields uid, message_id and subject
\* lists without duplicates, and the second merge changes none of uid,
\* message_id, subject and body (the text block is not appended again).
C6_SecondMergeNoOp ==
    Len(res) = 2 =>
        /\ NoDuplicates(res[2].uid.items)
        /\ NoDuplicates(res[2].message_id.items)
        /\ NoDuplicates(res[2].subject.items)
        /\ res[2].uid = res[1].uid
        /\ res[2].message_id = res[1].message_id
        /\ res[2].subject = res[1].subject
        /\ res[2].body = res[1].body

\* the record was created from one email and the fragment merged into it
\* comes from another email
TwoEmails ==
    /\ Len(res) >= 1
    /\ arg.existing # LegacyRecord
    /\ arg.existing.uid.items[1] # arg.new_data.uid

MARKER == "--- PART 2 ---"

\* the marker stands between the text of the first and of the second email
SeparatedParts(body, first, second) ==
    \E i \in 1..Len(body) :
        /\ body[i] = MARKER
        /\ IsSubstring(strip(first), SubSeq(body, 1, i - 1))
        /\ IsSubstring(strip(second), SubSeq(body, i + 1, Len(body)))

\* C15 (as stated): two distinct emails merged into one release give a uid
\* list of exactly two elements, a body with the separator marker between
\* the two parts, and the first email's descriptors followed by the second
\* email's.
C15_TwoEmailsMerged ==
    TwoEmails =>
        /\ res[1].uid = ListOf(<<arg.existing.uid.items[1], arg.new_data.uid>>)
        /\ SeparatedParts(res[1].body, arg.existing.body, arg.new_data.body)
        /\ res[1].attachments
              = arg.existing.attachments \o arg.new_data.attachments

\* C15 (amended): the separator marker stands between the two parts when
\* the second email's body is not empty and not contained in the first's;
\* otherwise the body is the first email's.
C15_TwoEmailsMergedDistinctBodies ==
    TwoEmails =>
        /\ res[1].uid = ListOf(<<arg.existing.uid.items[1], arg.new_data.uid>>)
        /\ IF /\ arg.new_data.body # <<>>
              /\ ~IsSubstring(arg.new_data.body, arg.existing.body)
           THEN SeparatedParts(res[1].body, arg.existing.body,
                               arg.new_data.body)
           ELSE res[1].body = arg.existing.body
        /\ res[1].attachments
              = arg.existing.attachments \o arg.new_data.attachments

C15_Witness ==
    /\ TwoEmails
    /\ arg.new_data.body # <<>>
    /\ arg.existing.body # <<>>
    /\ ~IsSubstring(arg.new_data.body, arg.existing.body)
    /\ Len(res[1].attachments) = 3
    /\ Len(arg.existing.attachments) = 2

\* C16: after a merge the record holds the newest value of every
\* side-channel field the new email brought (lyrics).
C16_NewestLyricsWin ==
    (Len(res) >= 1 /\ arg.new_data.lyrics # <<>>)
        => res[1].lyrics = arg.new_data.lyrics

\* C24: the merged body is the existing body, the separator marker and the
\* new body when the new body is not a substring of the existing body, and
\* the existing body otherwise.
C24_BodyAppendedOrUnchanged ==
    Len(res) >= 1 =>
        res[1].body =
            IF ~IsSubstring(arg.new_data.body, arg.existing.body)
            THEN arg.existing.body \o SEP \o arg.new_data.body
            ELSE arg.existing.body

\* C36: a merge leaves date, from and to of the existing record as they
\* were, so the date the resume cursor reads from the record is the same
\* before and after.
C36_MergeKeepsHeaderFields ==
    \A k \in 1..Len(res) :
        /\ res[k].date = arg.existing.date
        /\ res[k].from = arg.existing.from
        /\ res[k].to = arg.existing.to
        /\ RecordDate(res[k]) = RecordDate(arg.existing)

\* a fragment of a later email, from another sender, has been merged into
\* the record of an earlier one
C36_Witness ==
    /\ Len(res) = MergeTimes
    /\ arg.existing # LegacyRecord
    /\ arg.new_data.date # arg.existing.date
    /\ arg.new_data.from # arg.existing.from
    /\ arg.new_data.to # arg.existing.to
    /\ RecordDate(arg.existing) < arg.new_data.date.items[1]
    /\ Len(res[MergeTimes].uid.items) = 2

(***************************************************************************)
(* _get_latest_archived_date on its own: the date fields of the existing   *)
(* records are drawn, and the records are scanned in some order.           *)
(***************************************************************************)
MaxDate == 5        \* latest date drawn
NumRecords == 3     \* records in the archive

Dates == DayLen..MaxDate

\* a date string without UTC offset, as str() of a datetime without tzinfo
NaiveDate == 0 - DayLen

DateFields ==
    {Scalar(d) : d \in Dates}
        \cup {ListOf(<<d, MaxDate + DayLen>>) : d \in Dates}
        \cup {ListOf(<<>>), Missing, Scalar(NaiveDate), Scalar(Unparseable)}

ScannedRecords == {[ok |-> TRUE, date |-> v] : v \in DateFields} \cup {Partial}

InitCursor ==
    /\ EngineInit(PlainWorkflow, FALSE)
    /\ arg \in [1..NumRecords -> ScannedRecords]
    /\ res = <<>>

Scan ==
    /\ res = <<>>
    /\ \E order \in Orders(1..NumRecords) :
          res' = <<[order |-> order,
                    latest |-> _get_latest_archived_date(
                        [i \in 1..NumRecords |-> RecordDate(arg[order[i]])])]>>
    /\ UNCHANGED <<engine, arg>>

NextCursor == Scan

SpecCursor == InitCursor /\ [][NextCursor]_vars

\* the records all carry a date with UTC offset, and the dates differ
Dated(rec) == rec.ok /\ rec.date.items # <<>>
FirstDate(rec) == rec.date.items[1]
DistinctDates ==
    /\ \A i \in 1..NumRecords : Dated(arg[i]) /\ IsAware(FirstDate(arg[i]))
    /\ \A i, j \in 1..NumRecords : i # j => FirstDate(arg[i]) # FirstDate(arg[j])

\* C9: for records with dates D1 < D2 < D3 the cursor is the day of D3 in
\* whatever order the records are scanned; a list-valued date counts with
\* its first element.
C9_CursorIsLatest ==
    (Len(res) = 1 /\ DistinctDates) =>
        res[1].latest = Day(Max({FirstDate(arg[i]) : i \in 1..NumRecords}))

\* the latest record is scanned first, and an earlier record holds a list
\* whose second element is later than every first element
C9_Witness ==
    /\ Len(res) = 1 /\ DistinctDates
    /\ \A i \in 1..NumRecords :
          FirstDate(arg[res[1].order[1]]) >= FirstDate(arg[i])
    /\ \E i \in 1..NumRecords :
          /\ arg[i].date.isList
          /\ \A j \in 1..NumRecords : arg[i].date.items[2] > FirstDate(arg[j])
    /\ Day(FirstDate(arg[res[1].order[1]])) # Day(FirstDate(arg[res[1].order[2]]))

\* the records the scan can read and whose date it can parse
Readable == {i \in 1..NumRecords : Dated(arg[i]) /\ FirstDate(arg[i]) # Unparseable}

\* C25: a record that cannot be read or parsed is skipped, and the result
\* is the latest date among the remaining records, wherever the bad record
\* falls in the scan.
C25_LatestOfReadableRecords ==
    Len(res) = 1 =>
        res[1].latest =
            IF Readable = {} THEN NoDate
            ELSE Day(Max({Hour(FirstDate(arg[i])) : i \in Readable}))

(***************************************************************************)
(* Workflow loading and _process_attachment on their own: a processor list *)
(* is drawn, the workflow is loaded, and attachments are dispatched.       *)
(***************************************************************************)
MaxDispatch == 2    \* attachments dispatched in one behaviour

CatchAll ==
    [name |-> "catch_all", file_patterns |-> << <<"*">> >>,
     handler |-> "save_image"]
PdfConverter ==
    [name |-> "pdf_converter", file_patterns |-> << <<"*", ".pdf">> >>,
     handler |-> "convert_pdf"]

\* an archive processor declared under another name
Unzipper ==
    [name |-> "unzip", file_patterns |-> << <<"*", ".zip">> >>,
     handler |-> "process_zip_attachment"]

ProcessorLists ==
    {TemplateProcessors, <<ZipExtractor, CatchAll>>, <<CatchAll, ZipExtractor>>,
     <<>>, <<ImageSaver>>, <<AudioNormalizer, PdfConverter>>,
     <<PdfConverter, ZipExtractor>>, <<Unzipper, AudioNormalizer, ImageSaver>>}

DispatchedFiles ==
    {[name |-> <<"T", " ", "1">>, ext |-> ".MP3"],
     [name |-> <<"c">>, ext |-> ".JPG"],
     [name |-> <<"b">>, ext |-> ".bmp"],
     [name |-> <<"n">>, ext |-> ".txt"],
     [name |-> <<"n">>, ext |-> ".pdf"],
     [name |-> <<"y">>, ext |-> ".docx", text |-> <<"a", NL, "b">>],
     [name |-> <<"a">>, ext |-> ".ZIP",
      entries |-> <<[name |-> <<"T", "2">>, ext |-> ".MP3"],
                    [name |-> <<".", "c">>, ext |-> ""]>>],
     [name |-> <<"T", "1">>, ext |-> ".m4a"],
     [name |-> <<"b">>, ext |-> ".zip",
      entries |-> <<[name |-> <<"n">>, ext |-> ".zip",
                     entries |-> <<[name |-> <<"c">>, ext |-> ".JPG"]>>],
                    [name |-> <<"_", "_", "m">>, ext |-> ".txt"],
                    [name |-> <<"T", " ", "2">>, ext |-> ".m4a"]>>]}

\* what can go wrong while one attachment is handled
DispatchEnvs ==
    {DefaultEnv, [DefaultEnv EXCEPT !.extractOk = FALSE],
     [DefaultEnv EXCEPT !.normalize = "run_fails"]}

InitDispatch ==
    /\ EngineInit(PlainWorkflow, FALSE)
    /\ \E processors \in ProcessorLists :
          arg = [attachment_processors |-> processors, status |-> "configured"]
    /\ res = <<>>

\* process_workflow: the workflow is looked up and handed to the
\* EmailProcessor constructor, which takes it as it is
LoadWorkflow ==
    /\ arg.status = "configured"
    /\ arg' = [arg EXCEPT !.status = "loaded"]
    /\ UNCHANGED <<engine, res>>

DispatchAttachment ==
    /\ arg.status = "loaded"
    /\ Len(res) < MaxDispatch
    /\ \E att \in DispatchedFiles, env \in DispatchEnvs :
          res' = Append(res, [att |-> att, env |-> env,
                              out |-> _process_attachment(att,
                                         arg.attachment_processors, env)])
    /\ UNCHANGED <<engine, arg>>

NextDispatch == LoadWorkflow \/ DispatchAttachment

SpecDispatch == InitDispatch /\ [][NextDispatch]_vars

\* the processors of the list one of whose patterns ('*' or '*.ext')
\* matches the lower-cased file name
Matching(processors, att) ==
    {i \in 1..Len(processors) :
        \E k \in 1..Len(processors[i].file_patterns) :
            LET pattern == processors[i].file_patterns[k]
            IN  \/ pattern = <<"*">>
                \/ pattern = <<"*", ExtLower(att.ext)>>}

\* C11: an attachment goes to the first processor in declaration order one
\* of whose patterns matches the lower-cased file name, and to no other;
\* with *.zip declared before * a .zip goes to the archive handler; when no
\* processor matches, the file is saved as it is under images/ for an image
\* extension and under audio/ otherwise.
C11_FirstMatchingProcessor ==
    \A k \in 1..Len(res) :
        LET att == res[k].att
            out == res[k].out
            processors == arg.attachment_processors
            matching == Matching(processors, att)
        IN  /\ matching # {} =>
                  /\ out.processor = processors[Min(matching)].name
                  /\ out.handler = processors[Min(matching)].handler
                  /\ out.result =
                        ApplyHandler(processors[Min(matching)].handler, att,
                                     processors, res[k].env)
            /\ (processors = <<ZipExtractor, CatchAll>>
                    /\ ExtLower(att.ext) = ".zip")
                  => out.handler = "process_zip_attachment"
            /\ matching = {} =>
                  /\ out.processor = "" /\ out.handler = ""
                  /\ out.result.files = {slugify_filename(att)}
                  /\ out.result.descriptors =
                        <<[original |-> OrigName(att),
                           slugified |-> slugify_filename(att)]>>
                  /\ out.target_dir =
                        IF ExtLower(att.ext) \in ImageExtensions
                        THEN "images" ELSE "audio"

\* a .ZIP under (*.zip, *) reached the archive handler, and a .bmp no
\* processor matches was saved under images/
C11_Witness ==
    /\ arg.attachment_processors = <<ZipExtractor, CatchAll>>
    /\ Len(res) = 2
    /\ res[1].att.ext = ".ZIP"
    /\ res[1].out.handler = "process_zip_attachment"
    /\ res[1].out.result.descriptors # <<>>
    /\ \E k \in {2} : res[k].att.ext = ".txt" /\ res[k].out.processor = "catch_all"

\* C18: a workflow naming a handler that is not registered is rejected
\* before anything is fetched or processed: no dispatch of an attachment
\* ever meets an unknown handler.
C18_UnknownHandlerNeverAtDispatch ==
    \A k \in 1..Len(res) : ~res[k].out.result.raised

\* the entries of a dispatched archive that are not junk, as extracted
Retained(att) ==
    {j \in 1..Len(ZipEntriesOf(att)) : ~Junk(ZipEntriesOf(att)[j])}
Extracted(att, j) ==
    [ZipEntriesOf(att)[j] EXCEPT
        !.name = slugify_filename(ZipEntriesOf(att)[j]).name,
        !.ext = slugify_filename(ZipEntriesOf(att)[j]).ext]

\* the dispatches that went to the archive handler
ArchiveDispatches ==
    {k \in 1..Len(res) : res[k].out.handler = "process_zip_attachment"}

\* C26: for every workflow configuration, no extracted entry of an archive
\* (a nested .zip, say) is handed to the archive handler again.
C26_ArchiveHandlerNotReentered ==
    \A k \in ArchiveDispatches :
        \A j \in Retained(res[k].att) :
            ReDispatch(arg.attachment_processors, arg.attachment_processors,
                       Extracted(res[k].att, j), res[k].env).handler
                # "process_zip_attachment"

\* the retained entries of an archive in the order of the archive
RECURSIVE RetainedSeq(_)
RetainedSeq(entries) ==
    IF entries = <<>> THEN <<>>
    ELSE IF Junk(Head(entries)) THEN RetainedSeq(Tail(entries))
    ELSE <<Head(entries)>> \o RetainedSeq(Tail(entries))

\* the processors other than the one the archive went to, in declaration
\* order, one of whose patterns matches the extracted file
OthersMatching(processors, self, extracted_att) ==
    {i \in 1..Len(processors) :
        /\ processors[i].name # self
        /\ _matches_pattern(extracted_att, processors[i].file_patterns)}

\* C27: the archive handler returns one descriptor for each entry whose
\* base name is not empty and does not start with '.' or '__', in order,
\* and none for the others; each retained entry is handed to the first
\* processor other than the archive's own whose patterns match, and to no
\* processor when none matches.
C27_OneDescriptorPerRetainedEntry ==
    \A k \in ArchiveDispatches :
        LET att == res[k].att
            out == res[k].out
            processors == arg.attachment_processors
            kept == RetainedSeq(ZipEntriesOf(att))
        IN  ~out.result.raised =>
              /\ Len(out.result.descriptors) = Len(kept)
              /\ \A j \in 1..Len(kept) :
                    out.result.descriptors[j].original
                        = [name |-> kept[j].name, ext |-> kept[j].ext]
              /\ \A j \in Retained(att) :
                    LET others == OthersMatching(processors, out.processor,
                                                 Extracted(att, j))
                        r == ReDispatch(processors, processors,
                                        Extracted(att, j), res[k].env)
                    IN  r.handler = IF others = {} THEN ""
                                    ELSE processors[Min(others)].handler

\* C28: the descriptor the archive handler records for an entry names the
\* file that entry has left on disk, also when the entry's processor
\* changed the extension.
C28_DescriptorNamesFileOnDisk ==
    \A k \in ArchiveDispatches :
        LET out == res[k].out
            kept == RetainedSeq(ZipEntriesOf(res[k].att))
        IN  ~out.result.raised =>
              \A j \in 1..Len(out.result.descriptors) :
                  /\ out.result.descriptors[j].slugified \in out.result.files
                  /\ j <= Len(kept) =>
                        out.result.descriptors[j].slugified.name
                            = slugify_filename(kept[j]).name

(***************************************************************************)
(* normalize_audio and normalize_audio_handler on their own: an audio      *)
(* attachment and the workflow's settings are drawn, and the file is       *)
(* normalised, or handled, once.                                           *)
(***************************************************************************)
AudioAttachments ==
    {[name |-> <<"T", " ", "1">>, ext |-> ".MP3"],
     [name |-> <<"T", "1">>, ext |-> ".m4a"],
     [name |-> <<"c">>, ext |-> ".wav"],
     [name |-> <<"n">>, ext |-> ".ogg"]}

\* the formats a workflow may name; "aiff" is not a key of OUTPUT_FORMATS
ConfiguredFormats == OUTPUT_FORMATS \cup {"aiff"}

InitNormalize ==
    /\ EngineInit(PlainWorkflow, FALSE)
    /\ arg \in [att : AudioAttachments, normalize_audio : BOOLEAN,
                output_format : ConfiguredFormats]
    /\ res = <<>>

\* normalize_audio(path of the saved file, output_format)
NormalizeFile ==
    /\ res = <<>>
    /\ \E outcome \in NormalizeOutcomes :
          res' = <<[call |-> "normalize_audio", outcome |-> outcome,
                    n |-> normalize_audio(slugify_filename(arg.att),
                                          arg.output_format, outcome)]>>
    /\ UNCHANGED <<engine, arg>>

\* normalize_audio_handler(attachment, ...)
HandleAudio ==
    /\ res = <<>>
    /\ \E outcome \in NormalizeOutcomes :
          res' = <<[call |-> "normalize_audio_handler", outcome |-> outcome,
                    n |-> normalize_audio(slugify_filename(arg.att),
                                          arg.output_format, outcome),
                    out |-> normalize_audio_handler(arg.att,
                               [extractOk |-> TRUE,
                                normalize_audio |-> arg.normalize_audio,
                                output_format |-> arg.output_format,
                                normalize |-> outcome])]>>
    /\ UNCHANGED <<engine, arg>>

NextNormalize == NormalizeFile \/ HandleAudio

SpecNormalize == InitNormalize /\ [][NextNormalize]_vars

\* C29: the slugified name the handler returns is the saved name with the
\* output format's extension when the file was normalised to that format,
\* and the saved name when the format is 'original', normalisation is
\* disabled or it did not succeed; it names a file that is on disk.
C29_ReturnedNameIsOnDisk ==
    (Len(res) = 1 /\ res[1].call = "normalize_audio_handler") =>
        LET saved == slugify_filename(arg.att)
            converted == /\ arg.normalize_audio
                         /\ arg.output_format # "original"
                         /\ res[1].n.returned
            returned_name == res[1].out.descriptors[1].slugified
        IN  /\ returned_name =
                  IF converted
                  THEN [saved EXCEPT !.ext = OutputExtension(arg.output_format)]
                  ELSE saved
            /\ returned_name \in res[1].out.files

\* C30: whenever normalize_audio returns False the original is present and
\* unmodified, and in no outcome is the audio left without both the
\* original and a complete normalised file.
C30_OriginalKeptOnFailure ==
    (Len(res) = 1 /\ res[1].call = "normalize_audio") =>
        /\ ~res[1].n.returned => res[1].n.original = "intact"
        /\ res[1].n.original \in {"removed", "damaged"}
              => res[1].n.output = "complete"

(***************************************************************************)
(* Two runs against one workflow at the same time: each run handles one    *)
(* message of the same release; the reads and the writes of raw.json and   *)
(* of the Dedup Registry are separate steps, and nothing locks the files.  *)
(***************************************************************************)
Runs == {1, 2}
Other(p) == 3 - p

\* the messages of the two runs: distinct emails of one release
ConcurrentFragments(u) ==
    {g \in Fragments : g.uid = u /\ g.subject = <<"#", "1">> /\ Len(g.text) = 1}

NotLoaded == [ok |-> FALSE]
NewRun ==
    [pc |-> "idle", exists |-> FALSE, existing |-> NotLoaded,
     processed_uids |-> [st |-> "absent", uids |-> <<>>],
     staleRecord |-> FALSE, staleRegistry |-> FALSE]

InitConcurrent ==
    /\ EngineInit(PlainWorkflow, FALSE)
    /\ \E g1 \in ConcurrentFragments(1), g2 \in ConcurrentFragments(2),
          imported \in BOOLEAN, marked \in BOOLEAN :
          /\ arg = <<g1, g2>>
          /\ res = [run |-> [p \in Runs |-> NewRun], overlap |-> FALSE,
                    record |-> IF imported
                               THEN Put(EmptyMap, single_release_name,
                                        LegacyRecord)
                               ELSE EmptyMap,
                    registry |-> IF marked THEN [st |-> "ok", uids |-> <<0>>]
                                 ELSE [st |-> "absent", uids |-> <<>>]]

FrameConcurrent == UNCHANGED <<engine, arg>>

\* _save_metadata line 250 and _merge_metadata lines 266-267: the run looks
\* for raw.json and loads it
LoadRecord(p) ==
    /\ res.run[p].pc = "idle"
    /\ LET exists == single_release_name \in DOMAIN res.record
       IN  res' = [res EXCEPT
                     !.run[p].pc = "loaded",
                     !.run[p].exists = exists,
                     !.run[p].existing =
                         IF exists THEN res.record[single_release_name]
                         ELSE NotLoaded,
                     !.overlap = @ \/ res.run[Other(p)].pc \notin {"idle", "done"}]
    /\ FrameConcurrent

\* _save_metadata lines 249-262: what was loaded is merged with the new
\* data, or a new record is made, and raw.json is rewritten as a whole
WriteRecord(p) ==
    /\ res.run[p].pc = "loaded"
    /\ LET new_data == FragmentData(arg[p])
           final_data ==
               IF res.run[p].exists
               THEN _merge_metadata(res.run[p].existing, new_data)
               ELSE CreateRecord(new_data)
       IN  res' = [res EXCEPT
                     !.run[p].pc = "saved",
                     !.record = Put(@, single_release_name, final_data),
                     !.run[Other(p)].staleRecord =
                         @ \/ res.run[Other(p)].pc = "loaded"]
    /\ FrameConcurrent

\* mark_as_downloaded lines 137-140: the registry is loaded
LoadRegistry(p) ==
    /\ res.run[p].pc = "saved"
    /\ res' = [res EXCEPT !.run[p].pc = "read",
                          !.run[p].processed_uids = res.registry]
    /\ FrameConcurrent

\* variant: the registry is loaded again under a lock just before the write
WriteRegistry_Locked(p) ==
    /\ res.run[p].pc = "read"
    /\ res' = [res EXCEPT
                 !.run[p].pc = "done",
                 !.registry = mark_as_downloaded(arg[p].uid, res.registry,
                                                 FALSE).reg,
                 !.run[Other(p)].staleRegistry =
                     @ \/ res.run[Other(p)].pc = "read"]
    /\ FrameConcurrent

\* mark_as_downloaded lines 142-145: the list that was loaded, with the uid
\* appended, replaces the file
WriteRegistry(p) ==
    /\ res.run[p].pc = "read"
    /\ res' = [res EXCEPT
                 !.run[p].pc = "done",
                 !.registry = mark_as_downloaded(arg[p].uid,
                                  res.run[p].processed_uids, FALSE).reg,
                 !.run[Other(p)].staleRegistry =
                     @ \/ res.run[Other(p)].pc = "read"]
    /\ FrameConcurrent

NextConcurrent ==
    \E p \in Runs :
        \/ LoadRecord(p)
        \/ WriteRecord(p)
        \/ LoadRegistry(p)
        \/ WriteRegistry(p)

SpecConcurrent == InitConcurrent /\ [][NextConcurrent]_vars

BothDone == \A p \in Runs : res.run[p].pc = "done"
Marked(p) == InList(arg[p].uid, res.registry.uids)
Merged(p) ==
    /\ single_release_name \in DOMAIN res.record
    /\ InList(arg[p].uid, res.record[single_release_name].uid.items)
    /\ IsSubstring(arg[p].text, res.record[single_release_name].body)

\* C23: when both runs have finished, the uid a run marked is missing from
\* the registry exactly if the other run wrote a list it had loaded before,
\* and the fragment a run merged is missing from the record exactly if the
\* other run wrote a record it had loaded before; such interleavings exist,
\* and runs that do not overlap lose neither.
C23_LostUpdateOnlyWhenInterleaved ==
    BothDone =>
        /\ \A p \in Runs :
              /\ Marked(p) <=> ~res.run[Other(p)].staleRegistry
              /\ Merged(p) <=> ~res.run[Other(p)].staleRecord
        /\ ~res.overlap => \A p \in Runs : Marked(p) /\ Merged(p)

\* both runs have finished, one run's uid is missing from the registry and
\* one run's fragment is missing from the record
C23_Witness ==
    /\ BothDone /\ res.overlap
    /\ \E p \in Runs : ~Marked(p) /\ Marked(Other(p))
    /\ \E p \in Runs : ~Merged(p) /\ Merged(Other(p))

(***************************************************************************)
(* MetadataGenerator.generate_metadata: the retry loop around the call of  *)
(* the provider.  One step is one pass of the loop (the call and, on a     *)
(* rate limit, the sleep that follows it); the provider's answer to each   *)
(* call is drawn at the call.                                              *)
(***************************************************************************)
MaxRetries == 4

Providers == {"gemini", "openai", "anthropic"}

\* what a call of the provider does: it returns, or raises an exception that
\* carries "429", one of type ResourceExhausted, or any other exception
ProviderOutcomes == {"ok", "429", "ResourceExhausted", "error"}

IsRateLimit(e) == e \in {"429", "ResourceExhausted"}

WaitTime_Flat(attempt) == 12

WaitTime(attempt) == (attempt + 1) * 12

InitRetry ==
    /\ EngineInit(PlainWorkflow, FALSE)
    /\ arg \in [provider : Providers, max_retries : 0..MaxRetries]
    /\ res = [attempt |-> 0, calls |-> <<>>, waits |-> <<>>,
              status |-> "running"]

\* one pass of `for attempt in range(max_retries)`
CallProvider ==
    /\ res.status = "running"
    /\ res.attempt < arg.max_retries
    /\ \E e \in ProviderOutcomes :
          res' = [attempt |-> IF IsRateLimit(e) THEN res.attempt + 1
                                               ELSE res.attempt,
                  calls |-> Append(res.calls, e),
                  waits |-> IF IsRateLimit(e)
                            THEN Append(res.waits, WaitTime(res.attempt))
                            ELSE res.waits,
                  status |-> IF e = "ok" THEN "returned"
                             ELSE IF IsRateLimit(e) THEN "running"
                             ELSE "raised"]
    /\ UNCHANGED <<engine, arg>>

\* the loop is over: raise Exception("Max retries ... exceeded")
RetriesExceeded ==
    /\ res.status = "running"
    /\ res.attempt = arg.max_retries
    /\ res' = [res EXCEPT !.status = "exceeded"]
    /\ UNCHANGED <<engine, arg>>

NextRetry == CallProvider \/ RetriesExceeded

\* the loop is sequential code: a pass that can be taken is taken
SpecRetry == InitRetry /\ [][NextRetry]_vars /\ WF_vars(NextRetry)

RateLimited(i) == IsRateLimit(res.calls[i])

RetryBounds ==
    /\ Len(res.calls) <= arg.max_retries
    /\ Len(res.waits) = Cardinality({i \in 1..Len(res.calls) : RateLimited(i)})
    /\ \A k \in 1..Len(res.waits) : res.waits[k] = k * 12
    /\ \A i \in 1..Len(res.calls) - 1 : RateLimited(i)
    /\ res.status = "raised" <=>
          (res.calls # <<>> /\ res.calls[Len(res.calls)] = "error")
    /\ res.status = "returned" <=>
          (res.calls # <<>> /\ res.calls[Len(res.calls)] = "ok")
    /\ res.status = "exceeded" =>
          /\ Len(res.calls) = arg.max_retries
          /\ \A i \in 1..Len(res.calls) : RateLimited(i)

\* C31: generate_metadata calls the provider at most max_retries times, waits
\* k x 12 seconds after the k-th rate-limit failure, raises any other error
\* at once, raises after max_retries rate-limit failures, and always ends.
C31_BoundedRetryWithBackoff == []RetryBounds /\ <>(res.status # "running")

\* every allowed attempt hit a rate limit and the call has given up
C31_Witness ==
    /\ arg.max_retries >= 3
    /\ res.status = "exceeded"
    /\ Len(res.waits) = arg.max_retries

(***************************************************************************)
(* batch_generate_metadata: the releases of an archive get their           *)
(* metadata.json one after the other.  The steps are the places where a    *)
(* KeyboardInterrupt can arrive: before the call of the generator returns, *)
(* while metadata.json is open for writing, and during the throttling      *)
(* sleep.                                                                  *)
(***************************************************************************)
NumReleases == 3

Releases == 1..NumReleases

\* raw.json and metadata.json of a release folder before the batch
ReleaseFiles == [raw : {"valid", "corrupt"}, metadata : {"none", "old"}]

Unfinished == [raw |-> "", metadata |-> ""]

Ascending(S) == CHOOSE q \in [1..Cardinality(S) -> S] : \A a, b \in DOMAIN q : a < b => q[a] < q[b]

find_releases_needing_metadata(files) == Ascending({r \in Releases : files[r].metadata = "none"})

\* limit 0 stands for None: `if limit:` is false for both
releases_to_process(files, frc, limit) ==
    LET found == IF frc THEN Ascending(Releases)
                 ELSE find_releases_needing_metadata(files)
    IN  IF limit # 0 THEN SubSeq(found, 1, Min({limit, Len(found)})) ELSE found

InitBatch ==
    /\ EngineInit(PlainWorkflow, FALSE)
    /\ arg \in [files : [Releases -> ReleaseFiles], force : BOOLEAN,
                limit : 0..NumReleases - 1]
    /\ res = [todo |-> releases_to_process(arg.files, arg.force, arg.limit),
              i |-> 0, pc |-> "loop", files |-> arg.files,
              completed |-> [r \in Releases |-> Unfinished],
              cancelled |-> FALSE, status |-> "running"]

Current == res.todo[res.i]

AfterRelease == IF res.i < Len(res.todo) THEN "sleep" ELSE "loop"

\* for i, release_dir in enumerate(releases_to_process, 1)
NextRelease ==
    /\ res.status = "running" /\ res.pc = "loop"
    /\ res.i < Len(res.todo)
    /\ res' = [res EXCEPT !.i = @ + 1, !.pc = "generate"]
    /\ UNCHANGED <<engine, arg>>

\* generate_metadata_for_release up to the point where metadata.json is
\* opened: a corrupt raw.json raises out of it (no sleep follows), a failing
\* generator makes it return False, otherwise the file is opened with 'w'
GenerateForRelease ==
    /\ res.status = "running" /\ res.pc = "generate"
    /\ \/ /\ res.files[Current].raw = "corrupt"
          /\ res' = [res EXCEPT !.pc = "loop",
                                 !.completed[Current] = res.files[Current]]
       \/ /\ res.files[Current].raw = "valid"
          /\ res' = [res EXCEPT !.pc = AfterRelease,
                                 !.completed[Current] = res.files[Current]]
       \/ /\ res.files[Current].raw = "valid"
          /\ res' = [res EXCEPT !.pc = "write",
                                 !.files[Current].metadata = "partial"]
    /\ UNCHANGED <<engine, arg>>

\* json.dump(metadata, f) has written the whole file; the call returns True
WriteMetadata ==
    /\ res.status = "running" /\ res.pc = "write"
    /\ res' = [res EXCEPT !.pc = AfterRelease,
                           !.files[Current].metadata = "new",
                           !.completed[Current] =
                               [res.files[Current] EXCEPT !.metadata = "new"]]
    /\ UNCHANGED <<engine, arg>>

\* time.sleep(5) is over
Throttle ==
    /\ res.status = "running" /\ res.pc = "sleep"
    /\ res' = [res EXCEPT !.pc = "loop"]
    /\ UNCHANGED <<engine, arg>>

Interrupt_Continues ==
    /\ res.status = "running" /\ res.pc \in {"generate", "write", "sleep"}
    /\ res' = [res EXCEPT !.cancelled = TRUE, !.pc = "loop"]
    /\ UNCHANGED <<engine, arg>>

\* except KeyboardInterrupt: break
Interrupt ==
    /\ res.status = "running" /\ res.pc \in {"generate", "write", "sleep"}
    /\ res' = [res EXCEPT !.cancelled = TRUE, !.status = "cancelled"]
    /\ UNCHANGED <<engine, arg>>

\* the list is exhausted (or was empty): the summary is printed
BatchComplete ==
    /\ res.status = "running" /\ res.pc = "loop"
    /\ res.i = Len(res.todo)
    /\ res' = [res EXCEPT !.status = "complete"]
    /\ UNCHANGED <<engine, arg>>

NextBatch ==
    \/ NextRelease
    \/ GenerateForRelease
    \/ WriteMetadata
    \/ Throttle
    \/ Interrupt
    \/ BatchComplete

SpecBatch == InitBatch /\ [][NextBatch]_vars

\* C32: once the batch was interrupted while handling release i, no later
\* release is or has been processed, and the files of every release
\* completed before i are as they were when its processing finished.
C32_InterruptStopsBatch ==
    res.cancelled =>
        /\ \A k \in res.i + 1..Len(res.todo) :
              /\ res.files[res.todo[k]] = arg.files[res.todo[k]]
              /\ res.completed[res.todo[k]] = Unfinished
        /\ \A k \in 1..res.i - 1 :
              /\ res.completed[res.todo[k]] # Unfinished
              /\ res.files[res.todo[k]] = res.completed[res.todo[k]]

\* interrupted in the second of three releases, while its metadata.json is
\* being written, after the first release got its metadata
C32_Witness ==
    /\ res.cancelled /\ res.pc = "write"
    /\ res.i = 2 /\ Len(res.todo) = 3
    /\ res.files[res.todo[1]].metadata = "new"
    /\ res.files[res.todo[2]].metadata = "partial"

(***************************************************************************)
(* _add_track_durations on its own: a metadata.json whose tracks name      *)
(* audio files, and a release folder that holds each named file under      *)
(* audio/, under the release root, under both or nowhere.  A file on disk  *)
(* is "ok" when MP3(path) gives its length and "bad" when MP3(path) raises.*)
(***************************************************************************)
MaxTracks == 2

AudioNames == {"a", "b"}

\* a track as metadata.json holds it: audio_file "" stands for a track
\* without the key (or with an empty value)
Tracks == [audio_file : AudioNames \cup {""}, duration : {"none", "stale"}]

TrackLists == UNION {[1..n -> Tracks] : n \in 0..MaxTracks}

OnDisk == [audio : {"none", "ok", "bad"}, root : {"none", "ok", "bad"}]

Locate_RootFirst(disk, audio_filename) == IF disk[audio_filename].root # "none" THEN disk[audio_filename].root ELSE disk[audio_filename].audio

\* audio_path: audio/<name> if it exists, else <name> under the release root
Locate(disk, audio_filename) == IF disk[audio_filename].audio # "none" THEN disk[audio_filename].audio ELSE disk[audio_filename].root

\* one pass of the loop over the tracks
ProbeTrack(track, disk) ==
    IF track.audio_file = "" THEN track
    ELSE IF Locate(disk, track.audio_file) = "ok"
         THEN [track EXCEPT !.duration = "measured"]
         ELSE track

_add_track_durations(mutagen, exists, tracks, disk) ==
    LET unchanged == [tracks |-> tracks, rewritten |-> FALSE]
        probed == [i \in DOMAIN tracks |-> ProbeTrack(tracks[i], disk)]
        updated == \E i \in DOMAIN tracks : probed[i].duration = "measured"
    IN  IF ~mutagen THEN unchanged
        ELSE IF ~exists THEN unchanged
        ELSE IF updated THEN [tracks |-> probed, rewritten |-> TRUE]
        ELSE unchanged

InitDurations ==
    /\ EngineInit(PlainWorkflow, FALSE)
    /\ arg \in [mutagen : BOOLEAN, exists : BOOLEAN, tracks : TrackLists,
                disk : [AudioNames -> OnDisk]]
    /\ arg.exists \/ arg.tracks = <<>>
    /\ res = <<>>

AddTrackDurations ==
    /\ res = <<>>
    /\ res' = <<_add_track_durations(arg.mutagen, arg.exists, arg.tracks, arg.disk)>>
    /\ UNCHANGED <<engine, arg>>

NextDurations == AddTrackDurations

SpecDurations == InitDurations /\ [][NextDurations]_vars

\* the file the claim says is probed: the one under audio/ when there is
\* one, else the one under the release root
Probed(i) ==
    LET f == arg.tracks[i].audio_file
    IN  IF f = "" THEN "none"
        ELSE IF arg.disk[f].audio # "none" THEN arg.disk[f].audio
        ELSE arg.disk[f].root

DurationsSet ==
    /\ \A i \in DOMAIN arg.tracks :
          res[1].tracks[i] = IF Probed(i) = "ok"
                             THEN [arg.tracks[i] EXCEPT !.duration = "measured"]
                             ELSE arg.tracks[i]
    /\ res[1].rewritten <=> \E i \in DOMAIN arg.tracks : Probed(i) = "ok"

\* C33 as stated: every track whose file is found (audio/ first, then the
\* root) and can be read gets a duration, every other track is unchanged,
\* and metadata.json is rewritten exactly if a duration was set.
C33_DurationOnEveryFoundTrack == Len(res) = 1 => DurationsSet

\* C33 amended: that holds when the mutagen library can be imported;
\* without it no track is changed and metadata.json is not rewritten.
C33_DurationWhenMutagenInstalled ==
    Len(res) = 1 =>
        IF arg.mutagen THEN DurationsSet
        ELSE res[1] = [tracks |-> arg.tracks, rewritten |-> FALSE]

\* two tracks: the first one's file is unreadable under audio/ although a
\* readable copy lies in the root, the second one's is found in the root
C33_Witness ==
    /\ Len(res) = 1 /\ arg.mutagen /\ Len(arg.tracks) = 2
    /\ arg.tracks[1].audio_file = "a" /\ arg.tracks[2].audio_file = "b"
    /\ arg.disk["a"] = [audio |-> "bad", root |-> "ok"]
    /\ arg.disk["b"] = [audio |-> "none", root |-> "ok"]
    /\ res[1].rewritten
    /\ res[1].tracks[1].duration # "measured"
    /\ res[1].tracks[2].duration = "measured"

(***************************************************************************)
(* process_by_message_id.process_single_release_email: every call handles *)
(* one message for the single release and appends a track to              *)
(* metadata.json for each audio file the message brought.                  *)
(***************************************************************************)
MaxProcessed == 3

\* the messages of the mailbox, and one that brings two audio files
TwoTracks ==
    [Msg(1) EXCEPT !.attachments = <<[name |-> <<"T", "1">>, ext |-> ".m4a"],
                                    [name |-> <<"c">>, ext |-> ".wav"]>>]
SingleReleaseMessages == {Msg(u) : u \in Uids} \cup {TwoTracks}

\* att_meta.get('slugified', '').endswith(('.mp3', '.m4a', '.wav'))
IsTrackFile(slugified) == slugified.ext \in {".mp3", ".m4a", ".wav"}

NextTrackNumber_Restart(tracks) == 1

\* "track_num": len(metadata['tracks']) + 1
NextTrackNumber(tracks) == Len(tracks) + 1

\* the loop over attachment_metadata
RECURSIVE AddTracks(_, _, _)
AddTracks(tracks, attachment_metadata, msg) ==
    IF attachment_metadata = <<>> THEN tracks
    ELSE LET att_meta == Head(attachment_metadata)
             track == [track_num |-> NextTrackNumber(tracks),
                       title |-> clean_text(msg.subject),
                       credits |-> msg.from_,
                       audio_file |-> att_meta.slugified]
         IN  AddTracks(IF IsTrackFile(att_meta.slugified)
                       THEN Append(tracks, track) ELSE tracks,
                       Tail(attachment_metadata), msg)

\* metadata.json afterwards.  st: "absent", "ok" or "cut" (the write was
\* cut short after the file was truncated); a file that cannot be parsed
\* makes json.load raise before anything is written
process_single_release_email(msg, env, metadata_file, writeFails) ==
    LET attachment_metadata ==
            Extend([i \in 1..Len(msg.attachments) |->
                       _process_attachment(msg.attachments[i], TemplateProcessors,
                                           env).result.descriptors])
        loaded == IF metadata_file.st = "ok" THEN metadata_file.tracks ELSE <<>>
    IN  IF metadata_file.st = "cut" THEN metadata_file
        ELSE IF writeFails THEN [st |-> "cut", tracks |-> <<>>]
        ELSE [st |-> "ok", tracks |-> AddTracks(loaded, attachment_metadata, msg)]

InitSingleRelease ==
    /\ EngineInit(PlainWorkflow, FALSE)
    /\ arg \in DispatchEnvs
    /\ res = [metadata_file |-> [st |-> "absent", tracks |-> <<>>],
              processed |-> 0]

ProcessSingleRelease ==
    /\ res.processed < MaxProcessed
    /\ \E msg \in SingleReleaseMessages, writeFails \in BOOLEAN :
          res' = [metadata_file |->
                      process_single_release_email(msg, arg, res.metadata_file,
                                                   writeFails),
                  processed |-> res.processed + 1]
    /\ UNCHANGED <<engine, arg>>

NextSingleRelease == ProcessSingleRelease

SpecSingleRelease == InitSingleRelease /\ [][NextSingleRelease]_vars

\* C38: the tracks of a readable metadata.json carry the numbers 1..n in
\* list order, n being the number of tracks.
C38_TracksNumberedInOrder ==
    res.metadata_file.st = "ok" =>
        \A k \in 1..Len(res.metadata_file.tracks) :
            res.metadata_file.tracks[k].track_num = k

\* three messages were processed, one of them brought two tracks and one
\* none: the release has four tracks
C38_Witness ==
    /\ res.processed = 3 /\ res.metadata_file.st = "ok"
    /\ Len(res.metadata_file.tracks) = 4
    /\ \E k \in 1..3 :
          res.metadata_file.tracks[k].audio_file
              # res.metadata_file.tracks[k + 1].audio_file

====
